---- MODULE Spec2Model ----
(***************************************************************************)
(* Model of the clip pipeline of kearry/mca:                               *)
(*   scripts/processors/youtube_processor.py  (DebuggingQuoteMatcher,      *)
(*       YouTubeProcessor.extract_clip_with_verification,                  *)
(*       _extract_single_clip, _verify_clip_contains_quote,                *)
(*       YouTubeProcessor.merge_short_segments and the segment             *)
(*       normalization stage of YouTubeProcessor.process)                  *)
(*   scripts/main.py  (process_clip_request, generate_posts_from_text)     *)
(*   scripts/models/llm_manager.py  (extract_json, deduplicate_posts)      *)
(*                                                                         *)
(* Times are integers counted in tenths of a second, so the extractor's    *)
(* epsilon of 0.1 s is 1 and the 30 s debug margin is 300.  Confidences    *)
(* and matcher scores are exact fractions (numerator, denominator) where   *)
(* the code computes with floats.  Texts are sequences of one-character    *)
(* strings, shorter than the 200 characters from which difflib's autojunk  *)
(* heuristic applies.                                                      *)
(*                                                                         *)
(* Environment: ffprobe and ffmpeg are external programs, so each call's   *)
(* outcome is a nondeterministic choice among the outcomes the code        *)
(* distinguishes.  shutil.move / shutil.copy / os.remove act on files of   *)
(* the public folder and are taken to succeed, except where the code's own *)
(* arguments make them fail (copying a file onto itself, removing a file   *)
(* that does not exist).                                                   *)
(***************************************************************************)
EXTENDS Integers, Sequences, FiniteSets, TLC

Max(a, b) == IF a >= b THEN a ELSE b

Min(a, b) == IF a <= b THEN a ELSE b

None == "None"

(***************************************************************************)
(* DebuggingQuoteMatcher.  A text is a sequence of one-character strings.  *)
(***************************************************************************)
LowerCase == <<"a", "b", "c", "d", "e", "f", "g", "h", "i", "j", "k", "l", "m",
               "n", "o", "p", "q", "r", "s", "t", "u", "v", "w", "x", "y", "z">>

UpperCase == <<"A", "B", "C", "D", "E", "F", "G", "H", "I", "J", "K", "L", "M",
               "N", "O", "P", "Q", "R", "S", "T", "U", "V", "W", "X", "Y", "Z">>

Digits == {"0", "1", "2", "3", "4", "5", "6", "7", "8", "9"}

\* str.lower() on one character
Lower(c) ==
    IF \E k \in 1..Len(UpperCase) : UpperCase[k] = c
    THEN LowerCase[CHOOSE k \in 1..Len(UpperCase) : UpperCase[k] = c]
    ELSE c

\* the characters the pattern [^\w\s'] leaves in place, whitespace apart
IsKept(c) ==
    \/ \E k \in 1..Len(LowerCase) : LowerCase[k] = c
    \/ c \in Digits
    \/ c \in {"_", "'"}

\* lower-cased, every character outside [\w\s'] and every whitespace made a space
MapChars(text) == [k \in 1..Len(text) |-> IF IsKept(Lower(text[k])) THEN Lower(text[k]) ELSE " "]

\* the positions of a sequence, in order
Positions(text) == [k \in 1..Len(text) |-> k]

\* re.sub(r"\s+", " ", ...) followed by lstrip: of a run of spaces only the first
\* is kept, and none of a leading run
Collapse(text) ==
    LET kept == SelectSeq(Positions(text),
                          LAMBDA k : text[k] # " " \/ (k > 1 /\ text[k - 1] # " "))
    IN  [x \in 1..Len(kept) |-> text[kept[x]]]

RStrip(text) ==
    IF Len(text) > 0 /\ text[Len(text)] = " " THEN SubSeq(text, 1, Len(text) - 1)
    ELSE SubSeq(text, 1, Len(text))

normalize_text(text) == RStrip(Collapse(MapChars(text)))

\* where the word that starts at position k ends
WordEnd(text, k) ==
    LET ends == {e \in k..Len(text) : e = Len(text) \/ text[e + 1] = " "}
    IN  CHOOSE e \in ends : \A q \in ends : e <= q

\* str.split(): the maximal runs of characters other than spaces
Split(text) ==
    LET starts == SelectSeq(Positions(text),
                            LAMBDA k : text[k] # " " /\ (k = 1 \/ text[k - 1] = " "))
    IN  [x \in 1..Len(starts) |-> SubSeq(text, starts[x], WordEnd(text, starts[x]))]

\* str.strip() is empty
IsBlank(text) == \A k \in 1..Len(text) : text[k] = " "

\* str.strip()
Strip(text) ==
    LET inked == {k \in 1..Len(text) : text[k] # " "}
    IN  IF inked = {} THEN << >>
        ELSE SubSeq(text, CHOOSE k \in inked : \A q \in inked : k <= q,
                          CHOOSE k \in inked : \A q \in inked : k >= q)

\* needle in text
Contains(text, needle) ==
    \E k \in 0..(Len(text) - Len(needle)) : SubSeq(text, k + 1, k + Len(needle)) = needle

ToSet(seq) == {seq[k] : k \in 1..Len(seq)}

stop_words == {
    <<"t", "h", "e">>, <<"a", "n", "d">>, <<"o", "r">>, <<"b", "u", "t">>, <<"i", "n">>,
    <<"o", "n">>, <<"a", "t">>, <<"t", "o">>, <<"f", "o", "r">>, <<"o", "f">>,
    <<"w", "i", "t", "h">>, <<"b", "y">>, <<"f", "r", "o", "m">>, <<"u", "p">>,
    <<"a", "b", "o", "u", "t">>, <<"i", "n", "t", "o">>, <<"t", "h", "r", "o", "u", "g", "h">>,
    <<"d", "u", "r", "i", "n", "g">>, <<"b", "e", "f", "o", "r", "e">>,
    <<"a", "f", "t", "e", "r">>, <<"a", "b", "o", "v", "e">>, <<"b", "e", "l", "o", "w">>,
    <<"b", "e", "t", "w", "e", "e", "n">>, <<"a", "m", "o", "n", "g">>, <<"i", "s">>,
    <<"a", "r", "e">>, <<"w", "a", "s">>, <<"w", "e", "r", "e">>, <<"b", "e">>,
    <<"b", "e", "e", "n">>, <<"b", "e", "i", "n", "g">>, <<"h", "a", "v", "e">>,
    <<"h", "a", "s">>, <<"h", "a", "d">>, <<"d", "o">>, <<"d", "o", "e", "s">>,
    <<"d", "i", "d">>, <<"w", "i", "l", "l">>, <<"w", "o", "u", "l", "d">>,
    <<"s", "h", "o", "u", "l", "d">>, <<"c", "o", "u", "l", "d">>, <<"c", "a", "n">>,
    <<"m", "a", "y">>, <<"m", "i", "g", "h", "t">>, <<"m", "u", "s", "t">>,
    <<"s", "h", "a", "l", "l">>, <<"t", "h", "i", "s">>, <<"t", "h", "a", "t">>,
    <<"t", "h", "e", "s", "e">>, <<"t", "h", "o", "s", "e">>, <<"i">>, <<"y", "o", "u">>,
    <<"h", "e">>, <<"s", "h", "e">>, <<"i", "t">>, <<"w", "e">>, <<"t", "h", "e", "y">>,
    <<"m", "e">>, <<"h", "i", "m">>, <<"h", "e", "r">>, <<"u", "s">>, <<"t", "h", "e", "m">>,
    <<"m", "y">>, <<"y", "o", "u", "r">>, <<"h", "i", "s">>, <<"i", "t", "s">>,
    <<"o", "u", "r">>, <<"t", "h", "e", "i", "r">>, <<"a">>, <<"a", "n">> }

\* extract_keywords(text, min_length=3): the list of keywords, repetitions kept
extract_keywords(text) ==
    SelectSeq(Split(normalize_text(text)), LAMBDA w : Len(w) >= 3 /\ w \notin stop_words)

(***************************************************************************)
(* Scores are exact fractions [n |-> numerator, d |-> denominator], d > 0. *)
(***************************************************************************)
RECURSIVE GCD(_, _)
GCD(a, b) == IF b = 0 THEN a ELSE GCD(b, a % b)

Frac(n, d) ==
    IF n = 0 THEN [n |-> 0, d |-> 1]
    ELSE LET g == GCD(n, d) IN [n |-> n \div g, d |-> d \div g]

FAdd(x, y) == LET g == GCD(x.d, y.d)
              IN  Frac(x.n * (y.d \div g) + y.n * (x.d \div g), x.d * (y.d \div g))

FMul(x, y) == LET a == Frac(x.n, y.d)
                  b == Frac(y.n, x.d)
              IN  Frac(a.n * b.n, a.d * b.d)

RECURSIVE FLessParts(_, _, _, _)
\* a/b < c/d for a, c >= 0 and b, d > 0, by continued fractions (no products)
FLessParts(a, b, c, d) ==
    LET q1 == a \div b
        q2 == c \div d
        r1 == a % b
        r2 == c % d
    IN  IF q1 # q2 THEN q1 < q2
        ELSE IF r2 = 0 THEN FALSE
        ELSE IF r1 = 0 THEN TRUE
        ELSE FLessParts(d, r2, b, r1)

FLess(x, y) == FLessParts(x.n, x.d, y.n, y.d)

FGeq(x, y) == ~FLess(x, y)

Zero == Frac(0, 1)

\* length of the common run of a[ia..ahi] and b[jb..bhi] that starts at ia and jb
RunLen(a, b, ia, jb, ahi, bhi) ==
    IF a[ia] # b[jb] THEN 0
    ELSE LET lim == Min(ahi - ia, bhi - jb) + 1
             differ == {d \in 1..(lim - 1) : a[ia + d] # b[jb + d]}
         IN  IF differ = {} THEN lim ELSE CHOOSE d \in differ : \A q \in differ : d <= q

\* the longest run that starts at a[ia], the earliest in b among the longest
LongestInRow(a, b, ia, ahi, blo, bhi) ==
    LET runs == {[i |-> ia, j |-> jb, size |-> RunLen(a, b, ia, jb, ahi, bhi)] : jb \in blo..bhi}
    IN  CHOOSE r \in runs : \A q \in runs : r.size > q.size \/ (r.size = q.size /\ r.j <= q.j)

\* SequenceMatcher.find_longest_match without junk: the longest block, the
\* earliest in a among the longest, the earliest in b among those
find_longest_match(a, b, alo, ahi, blo, bhi) ==
    LET rows == {LongestInRow(a, b, ia, ahi, blo, bhi) : ia \in alo..ahi}
    IN  CHOOSE r \in rows : \A q \in rows : r.size > q.size \/ (r.size = q.size /\ r.i <= q.i)

RECURSIVE MatchedChars(_, _, _, _, _, _)
\* sum of the sizes of SequenceMatcher.get_matching_blocks over a[alo..ahi], b[blo..bhi]
MatchedChars(a, b, alo, ahi, blo, bhi) ==
    IF alo > ahi \/ blo > bhi THEN 0
    ELSE LET m == find_longest_match(a, b, alo, ahi, blo, bhi)
         IN  IF m.size = 0 THEN 0
             ELSE m.size + MatchedChars(a, b, alo, m.i - 1, blo, m.j - 1)
                         + MatchedChars(a, b, m.i + m.size, ahi, m.j + m.size, bhi)

\* SequenceMatcher(None, a, b).ratio() = 2.0 * matches / (len(a) + len(b)), 1.0 for two empty strings
difflib_ratio(a, b) ==
    IF Len(a) + Len(b) = 0 THEN Frac(1, 1)
    ELSE Frac(2 * MatchedChars(a, b, 1, Len(a), 1, Len(b)), Len(a) + Len(b))

\* Longest common subsequence, row by row.  prev[col + 1] is the length for the
\* characters of a read so far and b[1..col]; the entry of the next row is the
\* larger of prev's and of 1 + prev's entry before the last c in b[1..col].
LcsEntry(prev, c, b, col) ==
    LET ks == {k \in 1..col : b[k] = c}
    IN  IF ks = {} THEN prev[col + 1]
        ELSE Max(prev[col + 1], prev[CHOOSE k \in ks : \A q \in ks : k >= q] + 1)

RECURSIVE LcsRow(_, _, _, _, _)
\* the entries of columns lo..hi of the next row
LcsRow(prev, c, b, lo, hi) ==
    IF lo > hi THEN << >>
    ELSE IF lo = hi THEN <<LcsEntry(prev, c, b, lo)>>
    ELSE LET mid == (lo + hi) \div 2
         IN  LcsRow(prev, c, b, lo, mid) \o LcsRow(prev, c, b, mid + 1, hi)

RECURSIVE LcsRows(_, _, _, _, _)
\* the row after the characters a[lo..hi], from the row before them
LcsRows(a, b, lo, hi, prev) ==
    IF lo > hi THEN prev
    ELSE IF lo = hi THEN LcsRow(prev, a[lo], b, 0, Len(b))
    ELSE LET mid == (lo + hi) \div 2
             half == LcsRows(a, b, lo, mid, prev)
         IN  IF Len(half) = Len(b) + 1 THEN LcsRows(a, b, mid + 1, hi, half) ELSE half

LCS(a, b) == LcsRows(a, b, 1, Len(a), [col \in 1..(Len(b) + 1) |-> 0])[Len(b) + 1]

\* rapidfuzz.fuzz.ratio(a, b) / 100.0: the normalized Indel similarity
rapidfuzz_ratio(a, b) ==
    IF Len(a) + Len(b) = 0 THEN Frac(1, 1)
    ELSE Frac(2 * LCS(a, b), Len(a) + Len(b))

sequence_similarity(use_rapidfuzz, text1, text2) ==
    IF use_rapidfuzz THEN rapidfuzz_ratio(text1, text2) ELSE difflib_ratio(text1, text2)

\* 0.4 * jaccard + 0.6 * quote_coverage
word_overlap_score(text1, text2) ==
    LET words1 == ToSet(Split(normalize_text(text1)))
        words2 == ToSet(Split(normalize_text(text2)))
        intersection == Cardinality(words1 \cap words2)
        union == Cardinality(words1 \cup words2)
    IN  IF words1 = {} \/ words2 = {} THEN Zero
        ELSE FAdd(FMul(Frac(4, 10), Frac(intersection, union)),
                  FMul(Frac(6, 10), Frac(intersection, Cardinality(words1))))

keyword_match_score(quote, text) ==
    LET quote_keywords == extract_keywords(quote)
        text_keywords == ToSet(extract_keywords(text))
        matches == Len(SelectSeq(quote_keywords, LAMBDA kw : kw \in text_keywords))
    IN  IF quote_keywords = << >> THEN Zero ELSE Frac(matches, Len(quote_keywords))

calculate_all_scores(use_rapidfuzz, quote, text) ==
    [sequence |-> sequence_similarity(use_rapidfuzz, normalize_text(quote), normalize_text(text)),
     word_overlap |-> word_overlap_score(quote, text),
     keyword_match |-> keyword_match_score(quote, text)]

\* 0.3 * sequence + 0.4 * word_overlap + 0.3 * keyword_match
final_score(scores) ==
    FAdd(FAdd(FMul(Frac(3, 10), scores.sequence), FMul(Frac(4, 10), scores.word_overlap)),
         FMul(Frac(3, 10), scores.keyword_match))

\* 1.0 + 0.2 * max(0, length_ratio - 0.5), length_ratio the smaller of the two
\* word-count quotients; both counts are positive here
length_bonus(text_word_count, quote_word_count) ==
    LET lo == Min(text_word_count, quote_word_count)
        hi == Max(text_word_count, quote_word_count)
    IN  Frac(10 * hi + Max(0, 2 * lo - hi), 10 * hi)

\* a candidate that ties with the retained one replaces it
IsNewBest_OrEqual(adjusted_score, best_score) == FGeq(adjusted_score, best_score)

\* if adjusted_score > best_score
IsNewBest(adjusted_score, best_score) == FLess(best_score, adjusted_score)

\* one threshold for every quote length
min_threshold_Flat(quote_word_count) == Frac(35, 100)

\* line 211
min_threshold(quote_word_count) ==
    IF quote_word_count <= 5 THEN Frac(5, 10)
    ELSE IF quote_word_count <= 10 THEN Frac(4, 10)
    ELSE Frac(35, 100)

(***************************************************************************)
(* Segments are records [start, end, text].  A time is Time(v) when the    *)
(* segment has the key and Absent when it has not, which is where          *)
(* segment.get("start") gives None.                                        *)
(***************************************************************************)
Absent == [has |-> FALSE]

Time(v) == [has |-> TRUE, v |-> v]

Text(t) == [has |-> TRUE, v |-> t]

\* return None, None, None
NoMatch == [start_time |-> Absent, end_time |-> Absent, matched_text |-> Absent]

Matched(s, e, t) == [start_time |-> Time(s), end_time |-> Time(e), matched_text |-> Text(t)]

\* find_best_match(..., context_padding: float = 2.0)
ContextPadding == 20

\* padded_end = 10 of _find_exact_substring, in tenths of a second
FallbackEnd == 100

RECURSIVE Join(_)
\* " ".join(seg.get("text", "") for seg in window_segments)
Join(window_segments) ==
    IF window_segments = << >> THEN << >>
    ELSE IF Len(window_segments) = 1 THEN window_segments[1].text
    ELSE window_segments[1].text \o <<" ">> \o Join(Tail(window_segments))

\* the last segment that holds the quote, not the first
ExactFrom_Last(segments, normalized_quote, context_padding, k) ==
    LET holding == {j \in k..Len(segments) :
                        Contains(normalize_text(segments[j].text), normalized_quote)}
        last == CHOOSE j \in holding : \A q \in holding : q <= j
    IN  IF holding = {} THEN NoMatch
        ELSE Matched(IF segments[last].start.has THEN Max(0, segments[last].start.v - context_padding) ELSE 0,
                     IF segments[last].end.has THEN segments[last].end.v + context_padding ELSE FallbackEnd,
                     segments[last].text)

RECURSIVE ExactFrom(_, _, _, _)
ExactFrom(segments, normalized_quote, context_padding, k) ==
    IF k > Len(segments) THEN NoMatch
    ELSE IF Contains(normalize_text(segments[k].text), normalized_quote)
         THEN Matched(IF segments[k].start.has THEN Max(0, segments[k].start.v - context_padding) ELSE 0,
                      IF segments[k].end.has THEN segments[k].end.v + context_padding ELSE FallbackEnd,
                      segments[k].text)
         ELSE ExactFrom(segments, normalized_quote, context_padding, k + 1)

\* the first segment whose normalized text contains the normalized quote
find_exact_substring(segments, quote, context_padding) ==
    ExactFrom(segments, normalize_text(quote), context_padding, 1)

\* window_sizes = [w for w in [1, 2, 3, 5, 8] if w <= len(segments)]
window_sizes(segments) == SelectSeq(<<1, 2, 3, 5, 8>>, LAMBDA w : w <= Len(segments))

\* line 221
PaddedStart(raw_start, context_padding) ==
    IF raw_start > context_padding THEN Max(0, raw_start - context_padding) ELSE raw_start

\* line 222
PaddedEnd(raw_end, context_padding) == raw_end + context_padding

(***************************************************************************)
(* The segment normalization stage of YouTubeProcessor.process and         *)
(* merge_short_segments.  An entry of the raw segment list is either       *)
(* NotARecord (anything that is not a dict) or a record whose "start" and  *)
(* "end" are Absent (no such key), Time(v) or NotANumber (a value that is  *)
(* not a number, such as None or a string) and whose "text" is Absent or   *)
(* Text(t).  A cleaned or merged segment has the same shape with numbers   *)
(* and a text.                                                             *)
(***************************************************************************)
NotARecord == [dict |-> FALSE]

NotANumber == [has |-> TRUE, nan |-> TRUE]

Entry(s, e, t) == [dict |-> TRUE, start |-> s, end |-> e, text |-> t]

IsNumber(t) == "v" \in DOMAIN t

\* segment.get(key, 0)
GetTime(t) == IF t.has THEN t ELSE Time(0)

\* segment.get("text", "")
GetText(t) == IF t.has THEN t.v ELSE << >>

\* merge_short_segments(self, segments, min_duration=8.0, max_duration=20.0)
MinDuration == 80

MaxDuration == 200

\* chunk_duration >= 1.0
MinChunk == 10

\* avg_duration < 6.0
ShortAverage == 60

\* max(2.0, len(text) * 0.1)
estimated_duration(text) == Max(20, Len(text))

\* s.get('end', 0) - s.get('start', 0) raises for an entry without .get and
\* for operands that are not numbers
DurationRaises(s) ==
    \/ ~s.dict
    \/ ~IsNumber(GetTime(s.end))
    \/ ~IsNumber(GetTime(s.start))

RECURSIVE SumDurations(_)
SumDurations(segs) ==
    IF segs = << >> THEN 0
    ELSE GetTime(segs[1].end).v - GetTime(segs[1].start).v + SumDurations(Tail(segs))

\* the cleanup loop without the repair of zero timestamps
Cleanup_NoRepair(segs, k, valid_segments) ==
    LET kept == SelectSeq([x \in 1..Len(segs) |-> x],
                          LAMBDA x : x >= k /\ segs[x].dict /\ ~IsBlank(GetText(segs[x].text)))
    IN  valid_segments \o [x \in 1..Len(kept) |->
                               Entry(GetTime(segs[kept[x]].start), GetTime(segs[kept[x]].end),
                                     Text(Strip(GetText(segs[kept[x]].text))))]

\* float(start), float(end) of the appended record raise for what float does
\* not accept; the arithmetic of the repair does not, as it only meets numbers
RECURSIVE Cleanup(_, _, _)
Cleanup(segs, k, valid_segments) ==
    IF k > Len(segs) THEN valid_segments
    ELSE IF ~segs[k].dict THEN Cleanup(segs, k + 1, valid_segments)
    ELSE IF IsBlank(GetText(segs[k].text)) THEN Cleanup(segs, k + 1, valid_segments)
    ELSE LET s == GetTime(segs[k].start)
             e == GetTime(segs[k].end)
             text == GetText(segs[k].text)
             prev_end == IF valid_segments = << >> THEN 0
                         ELSE valid_segments[Len(valid_segments)].end.v
             fixed == s.v = 0 /\ e.v = 0 /\ k > 1
             fixed_start == IF fixed THEN prev_end ELSE s.v
             fixed_end == IF fixed THEN prev_end + estimated_duration(text) ELSE e.v
         IN  Cleanup(segs, k + 1,
                     Append(valid_segments,
                            Entry(Time(fixed_start), Time(fixed_end), Text(Strip(text)))))

LastChars(text, n) == SubSeq(text, Max(1, Len(text) - n + 1), Len(text))

FirstChars(text, n) == SubSeq(text, 1, Min(n, Len(text)))

LowerText(text) == [k \in 1..Len(text) |-> Lower(text[k])]

TransitionPhrases == {<<"s", "o", " ">>, <<"n", "o", "w", " ">>, <<"b", "u", "t", " ">>,
                      <<"a", "n", "d", " ", "s", "o">>, <<"o", "k", "a", "y">>,
                      <<"a", "l", "r", "i", "g", "h", "t">>}

\* the characters U+2022 and U+2014, each one character of a text
Bullet == "bullet"

EmDash == "emdash"

\* the three natural breaking points
NaturalBreak(chunk_text, text) ==
    \/ \E k \in 1..Len(LastChars(chunk_text, 10)) : LastChars(chunk_text, 10)[k] \in {".", "!", "?"}
    \/ (Len(text) > 0 /\ text[1] \in {"-", Bullet, EmDash})
    \/ \E phrase \in TransitionPhrases : Contains(FirstChars(LowerText(text), 20), phrase)

should_extend(current_chunk, end_time, text) ==
    IF end_time - current_chunk.start > MaxDuration THEN FALSE
    ELSE IF current_chunk.end - current_chunk.start >= MinDuration
         THEN ~NaturalBreak(current_chunk.text, text)
         ELSE TRUE

NoChunk == [open |-> FALSE]

Chunk(s, e, t) == [open |-> TRUE, start |-> s, end |-> e, text |-> t]

\* a finished chunk is kept when it lasts a second or more
Finalized(merged_segments, current_chunk) ==
    IF current_chunk.open /\ current_chunk.end - current_chunk.start >= MinChunk
    THEN Append(merged_segments,
                Entry(Time(current_chunk.start), Time(current_chunk.end),
                      Text(Strip(current_chunk.text))))
    ELSE merged_segments

RECURSIVE MergeFrom(_, _, _, _)
MergeFrom(segs, k, merged_segments, current_chunk) ==
    IF k > Len(segs) THEN Finalized(merged_segments, current_chunk)
    ELSE LET start_time == GetTime(segs[k].start).v
             end_time == GetTime(segs[k].end).v
             text == Strip(GetText(segs[k].text))
         IN  IF text = << >> THEN MergeFrom(segs, k + 1, merged_segments, current_chunk)
             ELSE IF ~current_chunk.open
                  THEN MergeFrom(segs, k + 1, merged_segments, Chunk(start_time, end_time, text))
             ELSE IF should_extend(current_chunk, end_time, text)
                  THEN MergeFrom(segs, k + 1, merged_segments,
                                 Chunk(current_chunk.start, end_time,
                                       current_chunk.text \o <<" ">> \o text))
             ELSE MergeFrom(segs, k + 1, Finalized(merged_segments, current_chunk),
                            Chunk(start_time, end_time, text))

merge_short_segments(segs) ==
    IF segs = << >> THEN segs ELSE MergeFrom(segs, 1, << >>, NoChunk)

\* len(merged_segments) > 0 and len(merged_segments) < len(segments) * 0.8
Improves(merged_segments, segs) ==
    Len(merged_segments) > 0 /\ 10 * Len(merged_segments) < 8 * Len(segs)

Raised(what) == [raised |-> TRUE, error |-> what]

Returned(segs) == [raised |-> FALSE, segments |-> segs]

\* lines 773-825 of process: the average over the raw entries, the cleanup loop,
\* and the merge when the raw average is under six seconds
normalize_segments(segs) ==
    IF segs = << >> THEN Returned(segs)
    ELSE IF \E k \in 1..Len(segs) : DurationRaises(segs[k])
         THEN Raised(IF ~segs[CHOOSE k \in 1..Len(segs) :
                                 DurationRaises(segs[k]) /\ \A q \in 1..(k - 1) : ~DurationRaises(segs[q])].dict
                     THEN "AttributeError" ELSE "TypeError")
    ELSE LET valid_segments == Cleanup(segs, 1, << >>)
             merged_segments == merge_short_segments(valid_segments)
         IN  IF SumDurations(segs) < ShortAverage * Len(segs)
                /\ Improves(merged_segments, valid_segments)
             THEN Returned(merged_segments)
             ELSE Returned(valid_segments)

(***************************************************************************)
(* Posts.  A post is a record [post_text, source_quote] whose source_quote *)
(* is Absent when the object has no such key.  LLMManager.extract_json and *)
(* generate_posts_from_text of main.py are modelled on LLM output that is  *)
(* a JSON array of post objects, complete or cut short: objects holds the  *)
(* complete objects in order, tail says whether an incomplete object       *)
(* follows them, closed whether the closing bracket is there.              *)
(***************************************************************************)
Post(t, q) == [post_text |-> t, source_quote |-> q]

Quote(q) == [has |-> TRUE, v |-> q]

\* the truth value of post.get("source_quote")
HasQuote_Key(q) == q.has

HasQuote(q) == q.has /\ q.v # ""

RECURSIVE DedupFrom(_, _, _, _)
DedupFrom(posts, k, seen, unique) ==
    IF k > Len(posts) THEN unique
    ELSE IF HasQuote(posts[k].source_quote) /\ posts[k].source_quote.v \in seen
         THEN DedupFrom(posts, k + 1, seen, unique)
    ELSE DedupFrom(posts, k + 1,
                   IF HasQuote(posts[k].source_quote) THEN seen \cup {posts[k].source_quote.v}
                   ELSE seen,
                   Append(unique, posts[k]))

deduplicate_posts(posts) == DedupFrom(posts, 1, {}, << >>)

\* the number of characters of the object as json.dumps writes it:
\* {"post_text": "..."} or {"post_text": "...", "source_quote": "..."}
ObjectLength(post) ==
    17 + Len(post.post_text)
       + (IF post.source_quote.has THEN 20 + Len(post.source_quote.v) ELSE 0)

LLMOutput(objects, tail, closed) == [objects |-> objects, tail |-> tail, closed |-> closed]

\* the text is valid JSON as a whole
WholeArray(output) == output.closed /\ ~output.tail

JsonList(posts) == [kind |-> "list", posts |-> posts]

JsonDict(post) == [kind |-> "dict", post |-> post]

NoJson == [kind |-> "raise"]

\* extract_json keeps the longest value that raw_decode can read at a '[' or '{' of
\* the text, the first one among equally long ones: the whole array when the text is
\* valid JSON, else one of the complete objects
extract_json(output) ==
    IF WholeArray(output) THEN JsonList(output.objects)
    ELSE IF output.objects = << >> THEN NoJson
    ELSE LET best == CHOOSE k \in 1..Len(output.objects) :
                         /\ \A j \in 1..Len(output.objects) :
                                ObjectLength(output.objects[j]) <= ObjectLength(output.objects[k])
                         /\ \A j \in 1..(k - 1) :
                                ObjectLength(output.objects[j]) < ObjectLength(output.objects[k])
         IN  JsonDict(output.objects[best])

Failed == [raised |-> TRUE]

Posts(posts) == [raised |-> FALSE, posts |-> posts]

\* "post_text" in post and "source_quote" in post
IsValidPost(post) == post.source_quote.has

\* generate_posts_from_text for a context of one chunk
generate_posts_from_text(output) ==
    LET data == extract_json(output)
    IN  IF data.kind = "raise" THEN Failed
        ELSE IF data.kind = "dict"
             THEN IF IsValidPost(data.post) THEN Posts(deduplicate_posts(<<data.post>>))
                  ELSE Failed
        ELSE Posts(deduplicate_posts(SelectSeq(data.posts, IsValidPost)))

(***************************************************************************)
(* The state of the program.                                               *)
(***************************************************************************)
VARIABLES
    pc,             \* position of the request / orchestrator
    caller,         \* "request": process_clip_request; "direct": extract_clip_with_verification called on its own
    out_has_mp4,    \* whether str(output_path) contains ".mp4"
    job,            \* what the media store holds for the job
    probe,          \* what ffprobe reports for the source video
    start,          \* target start handed to the orchestrator
    end,            \* target end handed to the orchestrator
    padding,        \* base padding handed to the orchestrator
    i,              \* index of the strategy of the next attempt
    fs,             \* the files of the public folder: path -> artifact
    log,            \* the attempts made so far, in order
    debug_call,     \* the debug extraction that was requested, if any
    result,         \* what extract_clip_with_verification returned
    response,       \* what process_clip_request returned or raised
    xin,            \* extractor harness: the arguments of one _extract_single_clip call
    xout,           \* extractor harness: what the call did
    vin,            \* verifier harness: the inputs of one _verify_clip_contains_quote call
    vout,           \* verifier harness: what the call returned
    use_rapidfuzz,  \* DebuggingQuoteMatcher.use_rapidfuzz: whether rapidfuzz could be imported
    mpc,            \* where the find_best_match call is
    segments,       \* find_best_match argument
    quote,          \* find_best_match argument
    context_padding,    \* find_best_match argument
    window_idx,     \* position in window_sizes of the outer loop
    start_idx,      \* start_idx of the inner loop
    candidates_tested,
    best_score,
    best_match,
    found,          \* what find_best_match returned
    npc,            \* where the call of the normalization stage is
    raw_segments,   \* the raw segment list handed to the stage
    normalized,     \* what the stage made of raw_segments
    merged,         \* what merge_short_segments returned to the stage
    renormalized,   \* what the stage makes of its own output
    earlier,        \* what an earlier find_best_match call on the same arguments returned
    ppc,            \* where the call of deduplicate_posts / generate_posts_from_text is
    all_posts,      \* the argument of deduplicate_posts
    unique,         \* what deduplicate_posts returned
    unique_again,   \* what deduplicate_posts makes of its own result
    response_content,   \* what the LLM answered
    final_posts,    \* what generate_posts_from_text returned
    llm,            \* LLMManager.llm, the cached model
    backend,        \* LLMManager.backend, the recorded backend
    loaded,         \* what the latest load_llm call did
    loads,          \* number of load_llm calls so far
    jpc,            \* where the process_content call of the job is
    input_type,     \* the input type of the job
    job_files,      \* the files {job_id}_* of the public folder
    stored_posts,   \* number of rows of the job in the Post table
    step,           \* the processing step of the running call
    job_response,   \* what the latest process_content call answered
    calls,          \* number of process_content calls for the job so far
    completed       \* some call has run the processing of the job to its end

match_vars == <<use_rapidfuzz, mpc, segments, quote, context_padding, window_idx, start_idx,
                candidates_tested, best_score, best_match, found>>

norm_vars == <<npc, raw_segments, normalized, merged, renormalized>>

\* the state of the stages that are modelled on their own
post_vars == <<ppc, all_posts, unique, unique_again, response_content, final_posts>>

load_vars == <<llm, backend, loaded, loads>>

job_vars == <<jpc, input_type, job_files, stored_posts, step, job_response, calls, completed>>

late_vars == <<load_vars, job_vars>>

side_vars == <<norm_vars, earlier, post_vars, late_vars>>

vars == <<pc, caller, out_has_mp4, job, probe, start, end, padding, i, fs, log,
          debug_call, result, response, xin, xout, vin, vout, match_vars, side_vars>>

orch_vars == <<pc, caller, out_has_mp4, job, probe, start, end, padding, i, fs, log,
               debug_call, result, response>>


(***************************************************************************)
(* Bounds of the model.                                                    *)
(***************************************************************************)
\* latest target start the matcher hands over (35.0 s)
MaxStart == 350

\* length of a matched window (4.0 s)
WindowLen == 40

\* a source video shorter than the late window (3.0 s)
ShortVideo == 30

\* a source video longer than every requested range (200.0 s)
LongVideo == 2000

(***************************************************************************)
(* Program constants.                                                      *)
(***************************************************************************)
\* _extract_single_clip: padded_end = video_duration - 0.1
Epsilon == 1

\* extract_clip_with_verification: debug_start = max(0, start - 30), debug_end = end + 30
DebugMargin == 300

\* process_clip_request: CLIP_PADDING default "1.5"
ClipPadding == 15

\* extract_clip_with_verification: padding=1.0
DefaultPadding == 10

\* number of strategies in the catalog
NStrategies == 5

\* _verify_clip_contains_quote: strategy_confidence.get(strategy_name, 0.1), in tenths
DefaultConfidence == 1

(***************************************************************************)
(* The strategy catalog, in order (index 1 is tried first).                *)
(***************************************************************************)
strategies ==
    << [name |-> "Exact timing",    start_offset |-> 0,    end_offset |-> 0,   extra_padding |-> 0],
       [name |-> "Small buffer",    start_offset |-> -20,  end_offset |-> 20,  extra_padding |-> 10],
       [name |-> "Medium buffer",   start_offset |-> -50,  end_offset |-> 50,  extra_padding |-> 20],
       [name |-> "Large buffer",    start_offset |-> -100, end_offset |-> 100, extra_padding |-> 30],
       [name |-> "Extended search", start_offset |-> -300, end_offset |-> 300, extra_padding |-> 50] >>

\* prior weight of a strategy name, in tenths
strategy_confidence(strategy_name) ==
    CASE strategy_name = "Exact timing"    -> 9
      [] strategy_name = "Small buffer"    -> 8
      [] strategy_name = "Medium buffer"   -> 6
      [] strategy_name = "Large buffer"    -> 4
      [] strategy_name = "Extended search" -> 2
      [] OTHER                             -> DefaultConfidence

(***************************************************************************)
(* Paths.  temp_clip_path and debug_path are built with                    *)
(* str(output_path).replace('.mp4', ...), which returns the output path    *)
(* itself when it holds no ".mp4".                                         *)
(***************************************************************************)
OutputPath == "out"

Paths == {"out", "out_test_0", "out_test_1", "out_test_2", "out_test_3", "out_test_4",
          "out_debug_extended"}

ScratchName(k) ==
    CASE k = 0 -> "out_test_0"
      [] k = 1 -> "out_test_1"
      [] k = 2 -> "out_test_2"
      [] k = 3 -> "out_test_3"
      [] k = 4 -> "out_test_4"

TempClipPath(k) == IF out_has_mp4 THEN ScratchName(k) ELSE OutputPath

DebugPath == IF out_has_mp4 THEN "out_debug_extended" ELSE OutputPath

NoFile == [kind |-> "none", by |-> -1]

\* an artifact left at the output path by an earlier request
Stale == [kind |-> "stale", by |-> -1]

\* by = 0..4: the strategy whose extraction wrote the file; DebugBy: the debug extraction
DebugBy == NStrategies

(***************************************************************************)
(* _extract_single_clip(video_path, start, end, output_path, padding).     *)
(* p is ffprobe's outcome: [kind |-> "ok", duration |-> D], "empty" (no    *)
(* output, read as duration 0) or "raise" (the probe or float() raised and *)
(* the clamp is skipped).  ff is ffmpeg's outcome when it is run: "ok"     *)
(* (return code 0, file written), "partial" (non-zero return code or the   *)
(* 60 s timeout, with a file left behind) or "fail" (no file written).     *)
(***************************************************************************)
\* the padded end never clamped to the source duration
ClampedEnd_Never(padded_end, p) == padded_end

ClampedEnd(padded_end, p) ==
    CASE p.kind = "raise" -> padded_end
      [] p.kind = "empty" -> IF padded_end > 0 THEN 0 - Epsilon ELSE padded_end
      [] OTHER            -> IF padded_end > p.duration THEN p.duration - Epsilon ELSE padded_end

extract_single_clip(s, e, pad, p, ff) ==
    LET padded_start == Max(0, s - pad)
        padded_end   == ClampedEnd(e + pad, p)
        duration     == padded_end - padded_start
    IN  IF duration <= 0
        THEN [ran |-> FALSE, ss |-> padded_start, to |-> padded_end, t |-> duration,
              wrote |-> FALSE, success |-> FALSE]
        ELSE [ran |-> TRUE, ss |-> padded_start, to |-> padded_end, t |-> duration,
              wrote |-> (ff # "fail"), success |-> (ff = "ok")]

FfmpegOutcomes == {"ok", "partial", "fail"}

(***************************************************************************)
(* _verify_clip_contains_quote(clip_path, quote, strategy_name).           *)
(* dur is the duration probe of the clip: "raise", "zero" (duration <= 0   *)
(* or no output), "short" (0 < duration < 2 s) or "ok" (>= 2 s); audio and *)
(* size are "pass", "fail" or "skip" (the check raised and appended        *)
(* nothing to verification_methods).                                       *)
(***************************************************************************)
DurOutcomes == {"raise", "zero", "short", "ok"}

CheckOutcomes == {"pass", "fail", "skip"}

B2N(b) == IF b THEN 1 ELSE 0

\* a strict comparison in place of >=
AtLeast_Strict(num, den, th) == 10 * num > th * den

\* final_confidence >= th/10, with final_confidence = num/den
AtLeast(num, den, th) == 10 * num >= th * den

ConfidenceLevel(likely, num, den) ==
    IF likely
    THEN IF AtLeast(num, den, 8) THEN "high"
         ELSE IF AtLeast(num, den, 6) THEN "medium" ELSE "low"
    ELSE "low"

verify_clip_contains_quote(strategy_name, dur, audio, size) ==
    IF dur \in {"raise", "zero"}
    THEN [likely_contains_quote |-> FALSE, confidence |-> "low",
          num |-> 0, den |-> 1, passed_checks |-> 0, total_checks |-> 0, early |-> TRUE]
    ELSE LET base_confidence == strategy_confidence(strategy_name)
             passed_checks == B2N(dur = "ok") + B2N(audio = "pass") + B2N(size = "pass")
             total_checks  == 1 + B2N(audio # "skip") + B2N(size # "skip")
             \* final_confidence = base_confidence * passed_checks / total_checks
             num == base_confidence * passed_checks
             den == 10 * total_checks
             likely == AtLeast(num, den, 5)
         IN  [likely_contains_quote |-> likely,
              confidence |-> ConfidenceLevel(likely, num, den),
              num |-> num, den |-> den,
              passed_checks |-> passed_checks, total_checks |-> total_checks,
              early |-> FALSE]

(***************************************************************************)
(* State of one clip request.                                              *)
(***************************************************************************)
\* a target start late enough that only the widest strategies clamp at 0 (6.0 s)
MidStart == 60

TargetStarts == {0, MidStart, MaxStart}

Windows == {[start |-> s, end |-> s + WindowLen] : s \in TargetStarts}

\* what find_quote_timestamps hands back to process_clip_request
MatchOutcomes == {[kind |-> "match", start |-> w.start, end |-> w.end] : w \in Windows}
                 \cup {[kind |-> "none", start |-> 0, end |-> 0],
                       [kind |-> "raise", start |-> 0, end |-> 0]}

Probes == {[kind |-> "raise", duration |-> 0], [kind |-> "empty", duration |-> 0],
           [kind |-> "ok", duration |-> ShortVideo], [kind |-> "ok", duration |-> LongVideo]}

EmptyFolder == [p \in Paths |-> NoFile]

NoCall == [made |-> FALSE]

NoResult == [returned |-> FALSE]

NoResponse == [status |-> "pending"]

\* the harnesses below are not running
NotCalled == [called |-> FALSE]

\* the normalization stage is not running
IdleNormalizer ==
    /\ npc = "idle"
    /\ raw_segments = << >>
    /\ normalized = Returned(<< >>)
    /\ merged = << >>
    /\ renormalized = Returned(<< >>)

IdlePosts ==
    /\ ppc = "idle"
    /\ all_posts = << >>
    /\ unique = << >>
    /\ unique_again = << >>
    /\ response_content = None
    /\ final_posts = NotCalled

\* self.llm = None
NoModel == [has |-> FALSE]

\* the n-th model object constructed, GeminiLLM() for "gemini" and Llama(...) otherwise
Model(b, n) == [has |-> TRUE, built_for |-> b, id |-> n]

\* LLMManager.__init__
IdleLoader ==
    /\ llm = NoModel /\ backend = None
    /\ loaded = NotCalled /\ loads = 0

\* a job nothing was run for: no file, no row
FreshJob ==
    /\ jpc = "idle" /\ job_files = {} /\ stored_posts = 0 /\ step = 0
    /\ job_response = NoResponse /\ calls = 0 /\ completed = FALSE

IdleJob == input_type = "text" /\ FreshJob

IdleLate == IdleLoader /\ IdleJob

IdleSide == IdleNormalizer /\ earlier = NotCalled /\ IdlePosts /\ IdleLate

\* no find_best_match call is modelled
IdleMatcher ==
    /\ use_rapidfuzz = FALSE /\ mpc = "idle"
    /\ segments = << >> /\ quote = << >> /\ context_padding = 0
    /\ window_idx = 0 /\ start_idx = 0 /\ candidates_tested = 0
    /\ best_score = Zero /\ best_match = Absent /\ found = NotCalled

Jobs == [segments_file : BOOLEAN, video_file : BOOLEAN, valid_timestamps : BOOLEAN]

Init ==
    /\ caller \in {"request", "direct"}
    /\ out_has_mp4 \in (IF caller = "request" THEN {TRUE} ELSE BOOLEAN)
    /\ job \in (IF caller = "request" THEN Jobs
                ELSE {[segments_file |-> TRUE, video_file |-> TRUE, valid_timestamps |-> TRUE]})
    /\ probe \in Probes
    /\ \E w \in (IF caller = "request" THEN {[start |-> 0, end |-> 0]} ELSE Windows) :
          start = w.start /\ end = w.end
    /\ padding = (IF caller = "request" THEN ClipPadding ELSE DefaultPadding)
    /\ pc = (IF caller = "request" THEN "files" ELSE "strategy")
    /\ i = 0
    /\ fs \in {EmptyFolder, [EmptyFolder EXCEPT ![OutputPath] = Stale]}
    /\ log = << >>
    /\ debug_call = NoCall
    /\ result = NoResult
    /\ response = NoResponse
    /\ xin = None /\ xout = NotCalled /\ vin = None /\ vout = NotCalled
    /\ IdleMatcher
    /\ IdleSide

Error(message) == [status |-> "error", message |-> message]

(***************************************************************************)
(* process_clip_request, up to the call of the orchestrator.               *)
(***************************************************************************)
CheckFiles ==
    /\ pc = "files"
    /\ IF ~job.segments_file \/ ~job.video_file
       THEN /\ response' = Error("Required files not found.")
            /\ pc' = "done"
       ELSE /\ pc' = "timestamps"
            /\ UNCHANGED response
    /\ UNCHANGED <<caller, out_has_mp4, job, probe, start, end, padding, i, fs, log,
                   debug_call, result, xin, xout, vin, vout, match_vars, side_vars>>

CheckTimestamps ==
    /\ pc = "timestamps"
    /\ IF ~job.valid_timestamps
       THEN /\ response' = Error("No segments with valid timestamps found. The segments file may be corrupted.")
            /\ pc' = "done"
       ELSE /\ pc' = "matching"
            /\ UNCHANGED response
    /\ UNCHANGED <<caller, out_has_mp4, job, probe, start, end, padding, i, fs, log,
                   debug_call, result, xin, xout, vin, vout, match_vars, side_vars>>

\* start, end, snippet = youtube_processor.find_quote_timestamps(segments, quote)
Matching ==
    /\ pc = "matching"
    /\ \E m \in MatchOutcomes :
          CASE m.kind = "raise" ->
                  /\ response' = Error("exception raised by find_best_match")
                  /\ pc' = "done"
                  /\ UNCHANGED <<start, end>>
            [] m.kind = "none" ->
                  /\ response' = Error("Quote not found in transcript.")
                  /\ pc' = "done"
                  /\ UNCHANGED <<start, end>>
            [] OTHER ->
                  /\ start' = m.start
                  /\ end' = m.end
                  /\ pc' = "strategy"
                  /\ UNCHANGED response
    /\ UNCHANGED <<caller, out_has_mp4, job, probe, padding, i, fs, log,
                   debug_call, result, xin, xout, vin, vout, match_vars, side_vars>>

(***************************************************************************)
(* extract_clip_with_verification: one iteration of the strategy loop.     *)
(***************************************************************************)
\* the adjusted start without its floor at 0
AdjustedStart_Unclamped(k) == start + strategies[k + 1].start_offset

AdjustedStart(k) == Max(0, start + strategies[k + 1].start_offset)

AdjustedEnd(k) == end + strategies[k + 1].end_offset

TotalPadding(k) == padding + strategies[k + 1].extra_padding

\* the folder after ffmpeg ran with outcome x, writing to path
Written(f, path, x, by) ==
    IF x.wrote
    THEN [f EXCEPT ![path] = [kind |-> IF x.success THEN "clip" ELSE "partial", by |-> by]]
    ELSE f

\* os.remove(path); a missing file raises and the bare except swallows it
Removed(f, path) == [f EXCEPT ![path] = NoFile]

\* shutil.move(src, dst): a rename; onto itself it changes nothing
Moved(f, src, dst) == [f EXCEPT ![src] = NoFile, ![dst] = f[src]]

\* shutil.copy(src, dst), src and dst different files
Copied(f, src, dst) == [f EXCEPT ![dst] = f[src]]

\* a failed attempt ends the loop
AfterFailure_GiveUp(k) == "debug"

\* where the loop goes after a failed attempt with strategy k
AfterFailure(k) == IF k + 1 < NStrategies THEN "strategy" ELSE "debug"

\* history of the loop: the verifier's answer is kept for the attempt that passed
NotKept == [likely_contains_quote |-> FALSE]

Attempt(k, outcome, v) ==
    [index |-> k, strategy |-> strategies[k + 1].name, outcome |-> outcome, verification |-> v]

\* if not success: continue
AttemptExtractFail ==
    /\ pc = "strategy"
    /\ \E ff \in FfmpegOutcomes :
          LET x == extract_single_clip(AdjustedStart(i), AdjustedEnd(i), TotalPadding(i), probe, ff)
          IN  /\ ~x.success
              /\ fs' = Written(fs, TempClipPath(i), x, i)
    /\ log' = Append(log, Attempt(i, "extract_failed", NotKept))
    /\ i' = i + 1
    /\ pc' = AfterFailure(i)
    /\ UNCHANGED <<caller, out_has_mp4, job, probe, start, end, padding,
                   debug_call, result, response, xin, xout, vin, vout, match_vars, side_vars>>

\* verification failed: os.remove(temp_clip_path) and go on
AttemptVerifyFail ==
    /\ pc = "strategy"
    /\ \E ff \in FfmpegOutcomes, dur \in DurOutcomes, audio \in CheckOutcomes, size \in CheckOutcomes :
          LET x == extract_single_clip(AdjustedStart(i), AdjustedEnd(i), TotalPadding(i), probe, ff)
              v == verify_clip_contains_quote(strategies[i + 1].name, dur, audio, size)
          IN  /\ x.success
              /\ ~v.likely_contains_quote
              /\ fs' = Removed(Written(fs, TempClipPath(i), x, i), TempClipPath(i))
    /\ log' = Append(log, Attempt(i, "verify_failed", NotKept))
    /\ i' = i + 1
    /\ pc' = AfterFailure(i)
    /\ UNCHANGED <<caller, out_has_mp4, job, probe, start, end, padding,
                   debug_call, result, response, xin, xout, vin, vout, match_vars, side_vars>>

\* verification passed: shutil.move(temp_clip_path, output_path) and return
AttemptVerifyPass ==
    /\ pc = "strategy"
    /\ \E ff \in FfmpegOutcomes, dur \in DurOutcomes, audio \in CheckOutcomes, size \in CheckOutcomes :
          LET x == extract_single_clip(AdjustedStart(i), AdjustedEnd(i), TotalPadding(i), probe, ff)
              v == verify_clip_contains_quote(strategies[i + 1].name, dur, audio, size)
          IN  /\ x.success
              /\ v.likely_contains_quote
              /\ fs' = Moved(Written(fs, TempClipPath(i), x, i), TempClipPath(i), OutputPath)
              /\ result' = [returned |-> TRUE, success |-> TRUE,
                            strategy |-> strategies[i + 1].name,
                            adjusted_start |-> AdjustedStart(i),
                            adjusted_end |-> AdjustedEnd(i),
                            confidence |-> v.confidence,
                            original_start |-> start, original_end |-> end]
              /\ log' = Append(log, Attempt(i, "passed", v))
    /\ pc' = "returned"
    /\ UNCHANGED <<caller, out_has_mp4, job, probe, start, end, padding, i,
                   debug_call, response, xin, xout, vin, vout, match_vars, side_vars>>

\* subprocess.run(probe_cmd, capture_output=True, text=True) of _extract_single_clip
\* has no timeout: an ffprobe that does not exit blocks the attempt, or the debug
\* extraction, for good
ExtractProbeHangs ==
    /\ pc \in {"strategy", "debug"}
    /\ pc' = "blocked"
    /\ UNCHANGED <<caller, out_has_mp4, job, probe, start, end, padding, i, fs, log,
                   debug_call, result, response, xin, xout, vin, vout, match_vars, side_vars>>

\* the two ffprobe calls of _verify_clip_contains_quote have no timeout either; they
\* run on the scratch clip of an extraction that succeeded
VerifyProbeHangs ==
    /\ pc = "strategy"
    /\ \E ff \in FfmpegOutcomes :
          LET x == extract_single_clip(AdjustedStart(i), AdjustedEnd(i), TotalPadding(i), probe, ff)
          IN  /\ x.success
              /\ fs' = Written(fs, TempClipPath(i), x, i)
    /\ pc' = "blocked"
    /\ UNCHANGED <<caller, out_has_mp4, job, probe, start, end, padding, i, log,
                   debug_call, result, response, xin, xout, vin, vout, match_vars, side_vars>>

(***************************************************************************)
(* extract_clip_with_verification: the debug clip after the loop.          *)
(***************************************************************************)
\* the debug start without its floor at 0
DebugStart_Unclamped == start - DebugMargin

DebugStart == Max(0, start - DebugMargin)

DebugEnd == end + DebugMargin

DebugCall(x) ==
    [made |-> TRUE, start |-> DebugStart, end |-> DebugEnd, path |-> DebugPath,
     ran |-> x.ran, ss |-> x.ss, to |-> x.to, success |-> x.success]

\* success: shutil.copy(debug_path, output_path), two different files
DebugExtractionOk ==
    /\ pc = "debug"
    /\ DebugPath # OutputPath
    /\ \E ff \in FfmpegOutcomes :
          LET x == extract_single_clip(DebugStart, DebugEnd, 0, probe, ff)
          IN  /\ x.success
              /\ debug_call' = DebugCall(x)
              /\ fs' = Copied(Written(fs, DebugPath, x, DebugBy), DebugPath, OutputPath)
    /\ result' = [returned |-> TRUE, success |-> FALSE, debug_clip |-> DebugPath,
                  message |-> "Quote not found at expected timestamp. Check debug clip."]
    /\ pc' = "returned"
    /\ UNCHANGED <<caller, out_has_mp4, job, probe, start, end, padding, i, log,
                   response, xin, xout, vin, vout, match_vars, side_vars>>

\* success, but debug_path is the output path: shutil.copy raises SameFileError,
\* which nothing catches
DebugCopySameFile ==
    /\ pc = "debug"
    /\ DebugPath = OutputPath
    /\ \E ff \in FfmpegOutcomes :
          LET x == extract_single_clip(DebugStart, DebugEnd, 0, probe, ff)
          IN  /\ x.success
              /\ debug_call' = DebugCall(x)
              /\ fs' = Written(fs, DebugPath, x, DebugBy)
    /\ pc' = "raised"
    /\ UNCHANGED <<caller, out_has_mp4, job, probe, start, end, padding, i, log,
                   result, response, xin, xout, vin, vout, match_vars, side_vars>>

DebugExtractionFail ==
    /\ pc = "debug"
    /\ \E ff \in FfmpegOutcomes :
          LET x == extract_single_clip(DebugStart, DebugEnd, 0, probe, ff)
          IN  /\ ~x.success
              /\ debug_call' = DebugCall(x)
              /\ fs' = Written(fs, DebugPath, x, DebugBy)
    /\ result' = [returned |-> TRUE, success |-> FALSE, debug_clip |-> None,
                  message |-> "Quote not found at expected timestamp. Check debug clip."]
    /\ pc' = "returned"
    /\ UNCHANGED <<caller, out_has_mp4, job, probe, start, end, padding, i, log,
                   response, xin, xout, vin, vout, match_vars, side_vars>>

(***************************************************************************)
(* process_clip_request, after the orchestrator returned.                  *)
(***************************************************************************)
RespondVerified ==
    /\ pc = "returned" /\ caller = "request"
    /\ result.success
    /\ response' = [status |-> "complete",
                    start_time |-> result.adjusted_start,
                    end_time |-> result.adjusted_end,
                    strategy |-> result.strategy,
                    confidence |-> result.confidence,
                    timing_adjusted |-> (result.adjusted_start # start \/ result.adjusted_end # end)]
    /\ pc' = "done"
    /\ UNCHANGED <<caller, out_has_mp4, job, probe, start, end, padding, i, fs, log,
                   debug_call, result, xin, xout, vin, vout, match_vars, side_vars>>

\* the debug clip is copied to the clip path once more and reported as complete
RespondDebug ==
    /\ pc = "returned" /\ caller = "request"
    /\ ~result.success /\ result.debug_clip # None
    /\ fs' = Copied(fs, result.debug_clip, OutputPath)
    /\ response' = [status |-> "complete",
                    start_time |-> start - DebugMargin,
                    end_time |-> end + DebugMargin,
                    note |-> "Extended clip created due to timing issues."]
    /\ pc' = "done"
    /\ UNCHANGED <<caller, out_has_mp4, job, probe, start, end, padding, i, log,
                   debug_call, result, xin, xout, vin, vout, match_vars, side_vars>>

RespondFailed ==
    /\ pc = "returned" /\ caller = "request"
    /\ ~result.success /\ result.debug_clip = None
    /\ response' = Error("Clip extraction and verification failed.")
    /\ pc' = "done"
    /\ UNCHANGED <<caller, out_has_mp4, job, probe, start, end, padding, i, fs, log,
                   debug_call, result, xin, xout, vin, vout, match_vars, side_vars>>

Next ==
    \/ CheckFiles
    \/ CheckTimestamps
    \/ Matching
    \/ AttemptExtractFail
    \/ AttemptVerifyFail
    \/ AttemptVerifyPass
    \/ ExtractProbeHangs
    \/ VerifyProbeHangs
    \/ DebugExtractionOk
    \/ DebugCopySameFile
    \/ DebugExtractionFail
    \/ RespondVerified
    \/ RespondDebug
    \/ RespondFailed

Spec == Init /\ [][Next]_vars

\* the interpreter runs the request to its end: a step that can be taken is taken
SpecLive == Spec /\ WF_vars(Next)

(***************************************************************************)
(* Harness for _extract_single_clip as a function of its arguments and of  *)
(* what ffprobe and ffmpeg do.                                             *)
(***************************************************************************)
\* largest start, end and source duration of the harness (tenths of a second)
MaxTime == 8

\* largest padding of the harness (tenths of a second)
MaxPad == 2

IdleRequest ==
    /\ pc = "harness" /\ caller = "none" /\ out_has_mp4 = TRUE
    /\ job = [segments_file |-> TRUE, video_file |-> TRUE, valid_timestamps |-> TRUE]
    /\ probe = [kind |-> "raise", duration |-> 0]
    /\ start = 0 /\ end = 0 /\ padding = 0 /\ i = 0
    /\ fs = EmptyFolder /\ log = << >> /\ debug_call = NoCall
    /\ result = NoResult /\ response = NoResponse

HarnessProbes == {[kind |-> "raise", duration |-> 0], [kind |-> "empty", duration |-> 0]}
                 \cup {[kind |-> "ok", duration |-> d] : d \in 0..MaxTime}

InitExtract ==
    /\ IdleRequest
    /\ xin \in [start : 0..MaxTime, end : 0..MaxTime, padding : 0..MaxPad,
                probe : HarnessProbes, ff : FfmpegOutcomes]
    /\ xout = NotCalled
    /\ vin = None /\ vout = NotCalled
    /\ IdleMatcher
    /\ IdleSide

ExtractCall ==
    /\ ~xout.called
    /\ xout' = [called |-> TRUE,
                r |-> extract_single_clip(xin.start, xin.end, xin.padding, xin.probe, xin.ff)]
    /\ UNCHANGED <<orch_vars, xin, vin, vout, match_vars, side_vars>>

SpecExtract == InitExtract /\ [][ExtractCall]_vars

(***************************************************************************)
(* Harness for _verify_clip_contains_quote as a function of the strategy   *)
(* name and of what the three checks find.                                 *)
(***************************************************************************)
StrategyNames == {strategies[k].name : k \in 1..NStrategies} \cup {"unlisted"}

InitVerify ==
    /\ IdleRequest
    /\ vin \in [strategy_name : StrategyNames, dur : DurOutcomes,
                audio : CheckOutcomes, size : CheckOutcomes]
    /\ vout = NotCalled
    /\ xin = None /\ xout = NotCalled
    /\ IdleMatcher
    /\ IdleSide

VerifyCall ==
    /\ ~vout.called
    /\ vout' = [called |-> TRUE,
                r |-> verify_clip_contains_quote(vin.strategy_name, vin.dur, vin.audio, vin.size)]
    /\ UNCHANGED <<orch_vars, xin, xout, vin, match_vars, side_vars>>

SpecVerify == InitVerify /\ [][VerifyCall]_vars

(***************************************************************************)
(* DebuggingQuoteMatcher.find_best_match, one step per candidate window.   *)
(***************************************************************************)
quote_words == Split(normalize_text(quote))

WindowSize == window_sizes(segments)[window_idx]

window_segments == SubSeq(segments, start_idx + 1, start_idx + WindowSize)

\* lines 115-151: the guards, the short-quote path and the loop set-up
MatchBegin ==
    /\ mpc = "called"
    /\ IF quote = << >> \/ segments = << >>
       THEN /\ found' = [called |-> TRUE, r |-> NoMatch]
            /\ mpc' = "done"
            /\ UNCHANGED <<window_idx, start_idx>>
       ELSE IF Len(quote_words) < 2
       THEN /\ found' = [called |-> TRUE, r |-> find_exact_substring(segments, quote, context_padding)]
            /\ mpc' = "done"
            /\ UNCHANGED <<window_idx, start_idx>>
       ELSE /\ mpc' = "scan"
            /\ window_idx' = 1
            /\ start_idx' = 0
            /\ UNCHANGED found
    /\ best_score' = Zero
    /\ best_match' = Absent
    /\ candidates_tested' = 0
    /\ UNCHANGED <<orch_vars, side_vars, xin, xout, vin, vout, use_rapidfuzz, segments, quote, context_padding>>

\* the loop header: the next (window_size, start_idx), or the end of both loops
NextWindow ==
    IF start_idx + 1 <= Len(segments) - WindowSize
    THEN /\ start_idx' = start_idx + 1
         /\ UNCHANGED <<window_idx, mpc>>
    ELSE IF window_idx < Len(window_sizes(segments))
    THEN /\ window_idx' = window_idx + 1
         /\ start_idx' = 0
         /\ UNCHANGED mpc
    ELSE /\ mpc' = "decide"
         /\ UNCHANGED <<window_idx, start_idx>>

\* lines 155-206: one iteration of the inner loop; each local is bound to its value
\* in the order in which the code computes it
ScoreWindow ==
    /\ mpc = "scan"
    /\ candidates_tested' = candidates_tested + 1
    /\ \E combined_text \in {Join(window_segments)} :
          IF IsBlank(combined_text)
          THEN \* continue
               /\ NextWindow
               /\ UNCHANGED <<best_score, best_match>>
          ELSE \E scores \in {calculate_all_scores(use_rapidfuzz, quote, combined_text)} :
               \E text_word_count \in {Len(Split(normalize_text(combined_text)))} :
                  IF text_word_count = 0
                  THEN \* len(quote_words) / text_word_count raises ZeroDivisionError
                       /\ mpc' = "raised"
                       /\ UNCHANGED <<window_idx, start_idx, best_score, best_match>>
                  ELSE \E adjusted_score \in {FMul(final_score(scores),
                                                   length_bonus(text_word_count, Len(quote_words)))} :
                       /\ IF IsNewBest(adjusted_score, best_score)
                          THEN /\ best_score' = adjusted_score
                               /\ best_match' = [has |-> TRUE,
                                                 start_time |-> window_segments[1].start,
                                                 end_time |-> window_segments[WindowSize].end,
                                                 text |-> Strip(combined_text)]
                          ELSE UNCHANGED <<best_score, best_match>>
                       /\ NextWindow
    /\ UNCHANGED <<orch_vars, side_vars, xin, xout, vin, vout, use_rapidfuzz, segments, quote, context_padding,
                   found>>

\* lines 211-236: the threshold and the context padding
Decide ==
    /\ mpc = "decide"
    /\ mpc' = "done"
    /\ found' = [called |-> TRUE,
                 r |-> IF /\ FGeq(best_score, min_threshold(Len(quote_words)))
                          /\ best_match.has
                          /\ best_match.start_time.has
                          /\ best_match.end_time.has
                       THEN Matched(PaddedStart(best_match.start_time.v, context_padding),
                                    PaddedEnd(best_match.end_time.v, context_padding),
                                    best_match.text)
                       ELSE NoMatch]
    /\ UNCHANGED <<orch_vars, side_vars, xin, xout, vin, vout, use_rapidfuzz, segments, quote, context_padding,
                   window_idx, start_idx, candidates_tested, best_score, best_match>>

(***************************************************************************)
(* Calls of find_best_match: the fixtures of tests/test_find_quote_        *)
(* timestamps.py, one transcript long enough for every window size, and    *)
(* the short transcripts over SegTexts with the quotes of Quotes.          *)
(***************************************************************************)
\* "The quick brown fox"
TheQuickBrownFox ==
    <<"T", "h", "e", " ", "q", "u", "i", "c", "k", " ", "b", "r", "o", "w", "n", " ", "f", "o",
      "x">>

\* "jumps over the lazy dog"
JumpsOverTheLazyDog ==
    <<"j", "u", "m", "p", "s", " ", "o", "v", "e", "r", " ", "t", "h", "e", " ", "l", "a", "z",
      "y", " ", "d", "o", "g">>

\* "and runs away"
AndRunsAway ==
    <<"a", "n", "d", " ", "r", "u", "n", "s", " ", "a", "w", "a", "y">>

\* "quick brown fox jumps over the lazy dog"
ExactQuote ==
    <<"q", "u", "i", "c", "k", " ", "b", "r", "o", "w", "n", " ", "f", "o", "x", " ", "j", "u",
      "m", "p", "s", " ", "o", "v", "e", "r", " ", "t", "h", "e", " ", "l", "a", "z", "y", " ",
      "d", "o", "g">>

\* "Machine learning enables computers"
MachineLearningEnables ==
    <<"M", "a", "c", "h", "i", "n", "e", " ", "l", "e", "a", "r", "n", "i", "n", "g", " ", "e",
      "n", "a", "b", "l", "e", "s", " ", "c", "o", "m", "p", "u", "t", "e", "r", "s">>

\* "to learn from data and make predictions"
ToLearnFromData ==
    <<"t", "o", " ", "l", "e", "a", "r", "n", " ", "f", "r", "o", "m", " ", "d", "a", "t", "a",
      " ", "a", "n", "d", " ", "m", "a", "k", "e", " ", "p", "r", "e", "d", "i", "c", "t", "i",
      "o", "n", "s">>

\* "machine learning lets computers learn from data to make predictions"
ParaphrasedQuote ==
    <<"m", "a", "c", "h", "i", "n", "e", " ", "l", "e", "a", "r", "n", "i", "n", "g", " ", "l",
      "e", "t", "s", " ", "c", "o", "m", "p", "u", "t", "e", "r", "s", " ", "l", "e", "a", "r",
      "n", " ", "f", "r", "o", "m", " ", "d", "a", "t", "a", " ", "t", "o", " ", "m", "a", "k",
      "e", " ", "p", "r", "e", "d", "i", "c", "t", "i", "o", "n", "s">>

\* "Hello world"
HelloWorld ==
    <<"H", "e", "l", "l", "o", " ", "w", "o", "r", "l", "d">>

\* "Another segment"
AnotherSegment ==
    <<"A", "n", "o", "t", "h", "e", "r", " ", "s", "e", "g", "m", "e", "n", "t">>

\* "this quote does not exist"
AbsentQuote ==
    <<"t", "h", "i", "s", " ", "q", "u", "o", "t", "e", " ", "d", "o", "e", "s", " ", "n", "o",
      "t", " ", "e", "x", "i", "s", "t">>

Segment(s, e, t) == [start |-> Time(s), end |-> Time(e), text |-> t]

\* test_exact_match_across_segments
ExactMatchCase ==
    [segments |-> <<Segment(0, 10, TheQuickBrownFox), Segment(10, 20, JumpsOverTheLazyDog),
                    Segment(20, 30, AndRunsAway)>>,
     quote |-> ExactQuote]

\* test_paraphrased_quote_matches
ParaphraseCase ==
    [segments |-> <<Segment(0, 10, MachineLearningEnables), Segment(10, 20, ToLearnFromData)>>,
     quote |-> ParaphrasedQuote]

\* test_no_match_returns_none
NoMatchCase ==
    [segments |-> <<Segment(0, 10, HelloWorld), Segment(10, 20, AnotherSegment)>>,
     quote |-> AbsentQuote]

\* a one-word quote of the second segment of the first fixture, which starts inside
\* the context padding
ShortQuoteCase == [segments |-> ExactMatchCase.segments, quote |-> <<"d", "o", "g">>]

\* a quote of punctuation only, "...", which normalizes to the empty string
PunctuationQuoteCase == [segments |-> ExactMatchCase.segments, quote |-> <<".", ".", ".">>]

\* the text of that segment as the quote
SecondSegmentCase == [segments |-> ExactMatchCase.segments, quote |-> JumpsOverTheLazyDog]

\* longest transcript of the generated calls, in segments
MaxSegs == 2

\* length of a generated segment (2.5 s)
SegLen == 25

\* "Red fox", "ran off.", "", "...", "a b c d", "a b c d e"
SegTexts ==
    { <<"R", "e", "d", " ", "f", "o", "x">>,
      <<"r", "a", "n", " ", "o", "f", "f", ".">>,
      << >>,
      <<".", ".", ".">>,
      <<"a", " ", "b", " ", "c", " ", "d">>,
      <<"a", " ", "b", " ", "c", " ", "d", " ", "e">> }

\* "", "fox", "red fox ran", "Fox ran", "a b c d e f g h", "a b c d e f g h i j k"
Quotes ==
    { << >>,
      <<"f", "o", "x">>,
      <<"r", "e", "d", " ", "f", "o", "x", " ", "r", "a", "n">>,
      <<"F", "o", "x", " ", "r", "a", "n">>,
      <<"a", " ", "b", " ", "c", " ", "d", " ", "e", " ", "f", " ", "g", " ", "h">>,
      <<"a", " ", "b", " ", "c", " ", "d", " ", "e", " ", "f", " ", "g", " ", "h", " ",
        "i", " ", "j", " ", "k">> }

\* which keys the segments of a generated transcript carry
TimeKeys == {"both", "no_start", "no_end"}

Timed(texts, keys) ==
    [k \in 1..Len(texts) |->
        [start |-> IF keys = "no_start" THEN Absent ELSE Time((k - 1) * SegLen),
         end |-> IF keys = "no_end" THEN Absent ELSE Time(k * SegLen),
         text |-> texts[k]]]

Transcripts ==
    {Timed(texts, keys) : texts \in UNION {[1..n -> SegTexts] : n \in 0..MaxSegs}, keys \in TimeKeys}

\* the largest entry of window_sizes
LargestWindow == 8

\* eight one-word segments "a" .. "h"
LongTranscript == [k \in 1..LargestWindow |-> Segment((k - 1) * SegLen, k * SegLen, <<LowerCase[k]>>)]

MatchInputs ==
    {ExactMatchCase, ParaphraseCase, NoMatchCase, ShortQuoteCase, PunctuationQuoteCase,
     SecondSegmentCase}
    \cup [segments : Transcripts \cup {LongTranscript}, quote : Quotes]

InitMatch ==
    /\ IdleRequest
    /\ IdleSide
    /\ xin = None /\ xout = NotCalled /\ vin = None /\ vout = NotCalled
    /\ use_rapidfuzz \in BOOLEAN
    /\ \E input \in MatchInputs : segments = input.segments /\ quote = input.quote
    /\ context_padding = ContextPadding
    /\ mpc = "called"
    /\ window_idx = 0 /\ start_idx = 0 /\ candidates_tested = 0
    /\ best_score = Zero /\ best_match = Absent /\ found = NotCalled

SpecMatch == InitMatch /\ [][MatchBegin \/ ScoreWindow \/ Decide]_vars

\* A second find_best_match call with the arguments of the first, by the same matcher
\* or by one that was constructed since: __init__ sets use_rapidfuzz by whether
\* "import rapidfuzz" succeeds where the matcher is constructed.
MatchAgain ==
    /\ mpc = "done"
    /\ ~earlier.called
    /\ earlier' = found
    /\ use_rapidfuzz' \in BOOLEAN
    /\ mpc' = "called"
    /\ window_idx' = 0 /\ start_idx' = 0 /\ candidates_tested' = 0
    /\ best_score' = Zero /\ best_match' = Absent /\ found' = NotCalled
    /\ UNCHANGED <<orch_vars, norm_vars, post_vars, late_vars, xin, xout, vin, vout, segments, quote, context_padding>>

SpecRematch == InitMatch /\ [][MatchBegin \/ ScoreWindow \/ Decide \/ MatchAgain]_vars

(***************************************************************************)
(* Calls of the normalization stage of process (lines 773-825): the stage  *)
(* on a raw segment list, the stage on its own output, and the call of     *)
(* merge_short_segments the stage makes when the raw average is short.     *)
(***************************************************************************)
\* how many entries a raw segment list has at most
MaxRaw == 3

\* "and so it goes on and on. ", 26 characters
AndSoItGoes ==
    <<"a", "n", "d", " ", "s", "o", " ", "i", "t", " ", "g", "o", "e", "s", " ", "o", "n", " ",
      "a", "n", "d", " ", "o", "n", ".", " ">>

RawEntries ==
    { Entry(Time(0), Time(40), Text(<<"x">>)),
      Entry(Time(40), Time(90), Text(<<"O", "n", "e", ".">>)),
      Entry(Time(50), Time(100), Text(<<"t", "w", "o">>)),
      Entry(Time(20), Time(260), Text(<<"-", " ", "y">>)),
      Entry(Time(0), Time(1000), Text(<< >>)),
      Entry(Absent, Absent, Text(<<" ", "s", "o", " ", "b">>)),
      Entry(Time(0), Time(0), Text(AndSoItGoes)),
      Entry(Time(10), Time(20), Absent),
      Entry(NotANumber, Time(10), Text(<<"x">>)),
      NotARecord }

RECURSIVE RawLists(_)
RawLists(n) ==
    IF n = 0 THEN {<< >>}
    ELSE RawLists(n - 1) \cup {Append(l, e) : l \in {r \in RawLists(n - 1) : Len(r) = n - 1},
                                              e \in RawEntries}

InitNormalize ==
    /\ IdleRequest
    /\ xin = None /\ xout = NotCalled /\ vin = None /\ vout = NotCalled
    /\ IdleMatcher
    /\ npc = "called"
    /\ raw_segments \in RawLists(MaxRaw)
    /\ normalized = Returned(<< >>)
    /\ merged = << >>
    /\ renormalized = Returned(<< >>)
    /\ earlier = NotCalled /\ IdleLate
    /\ IdlePosts

\* the whole stage
NormalizeCall ==
    /\ npc = "called"
    /\ normalized' = normalize_segments(raw_segments)
    /\ npc' = IF normalized'.raised THEN "raised" ELSE "returned"
    /\ UNCHANGED <<orch_vars, xin, xout, vin, vout, match_vars, raw_segments, merged, renormalized, earlier, post_vars, late_vars>>

\* line 816: merged_segments = self.merge_short_segments(segments)
MergeCall ==
    /\ npc = "called"
    /\ raw_segments # << >>
    /\ \A k \in 1..Len(raw_segments) : ~DurationRaises(raw_segments[k])
    /\ SumDurations(raw_segments) < ShortAverage * Len(raw_segments)
    /\ merged' = merge_short_segments(Cleanup(raw_segments, 1, << >>))
    /\ npc' = "merged"
    /\ UNCHANGED <<orch_vars, xin, xout, vin, vout, match_vars, raw_segments, normalized, renormalized, earlier, post_vars, late_vars>>

\* the stage applied to what it returned
RenormalizeCall ==
    /\ npc = "returned"
    /\ renormalized' = normalize_segments(normalized.segments)
    /\ npc' = "again"
    /\ UNCHANGED <<orch_vars, xin, xout, vin, vout, match_vars, raw_segments, normalized, merged, earlier, post_vars, late_vars>>

SpecNormalize == InitNormalize /\ [][NormalizeCall \/ MergeCall \/ RenormalizeCall]_vars

(***************************************************************************)
(* Calls of deduplicate_posts, once and on its own result.                 *)
(***************************************************************************)
\* how many posts a list has at most
MaxPosts == 3

PostTexts == {"a", "b"}

SourceQuotes == {Absent, Quote(""), Quote("same"), Quote("other")}

RECURSIVE Lists(_, _)
Lists(n, elements) ==
    IF n = 0 THEN {<< >>}
    ELSE Lists(n - 1, elements)
         \cup {Append(l, e) : l \in {r \in Lists(n - 1, elements) : Len(r) = n - 1}, e \in elements}

InitDedup ==
    /\ IdleRequest
    /\ xin = None /\ xout = NotCalled /\ vin = None /\ vout = NotCalled
    /\ IdleMatcher
    /\ IdleNormalizer /\ earlier = NotCalled /\ IdleLate
    /\ ppc = "called"
    /\ all_posts \in Lists(MaxPosts, {Post(t, q) : t \in PostTexts, q \in SourceQuotes})
    /\ unique = << >>
    /\ unique_again = << >>
    /\ response_content = None
    /\ final_posts = NotCalled

DeduplicateCall ==
    /\ ppc = "called"
    /\ unique' = deduplicate_posts(all_posts)
    /\ ppc' = "deduplicated"
    /\ UNCHANGED <<orch_vars, xin, xout, vin, vout, match_vars, norm_vars, earlier, late_vars,
                   all_posts, unique_again, response_content, final_posts>>

DeduplicateAgain ==
    /\ ppc = "deduplicated"
    /\ unique_again' = deduplicate_posts(unique)
    /\ ppc' = "again"
    /\ UNCHANGED <<orch_vars, xin, xout, vin, vout, match_vars, norm_vars, earlier, late_vars,
                   all_posts, unique, response_content, final_posts>>

SpecDedup == InitDedup /\ [][DeduplicateCall \/ DeduplicateAgain]_vars

(***************************************************************************)
(* Calls of generate_posts_from_text (main.py) on a context of one chunk,  *)
(* the LLM answering with a JSON array that may be cut short.              *)
(***************************************************************************)
\* how many complete objects the LLM output has at most
MaxObjects == 3

ObjectTexts == {"a", "bb"}

ObjectQuotes == {Absent, Quote("q1"), Quote("q2")}

InitGenerate ==
    /\ IdleRequest
    /\ xin = None /\ xout = NotCalled /\ vin = None /\ vout = NotCalled
    /\ IdleMatcher
    /\ IdleNormalizer /\ earlier = NotCalled /\ IdleLate
    /\ ppc = "asked"
    /\ all_posts = << >>
    /\ unique = << >>
    /\ unique_again = << >>
    /\ response_content \in {LLMOutput(objects, tail, closed) :
                                objects \in Lists(MaxObjects, {Post(t, q) : t \in ObjectTexts, q \in ObjectQuotes}),
                                tail \in BOOLEAN, closed \in BOOLEAN}
    /\ final_posts = NotCalled

GenerateCall ==
    /\ ppc = "asked"
    /\ \E r \in {generate_posts_from_text(response_content)} :
          /\ final_posts' = [called |-> TRUE, r |-> r]
          /\ ppc' = IF r.raised THEN "raised" ELSE "generated"
    /\ UNCHANGED <<orch_vars, xin, xout, vin, vout, match_vars, norm_vars, earlier, late_vars,
                   all_posts, unique, unique_again, response_content>>

SpecGenerate == InitGenerate /\ [][GenerateCall]_vars

(***************************************************************************)
(* LLMManager.load_llm, called any number of times on one manager.  The    *)
(* construction of a model (GeminiLLM(), Llama(...)) returns or raises.    *)
(***************************************************************************)
Backends == {"phi", "gemini"}

\* os.getenv("LLM_BACKEND", "phi")
DefaultBackend == "phi"

\* backend = backend or os.getenv("LLM_BACKEND", "phi")
Resolved(b) == IF b = None THEN DefaultBackend ELSE b

\* self.llm is None or backend != self.backend
MustConstruct(b) == ~llm.has \/ Resolved(b) # backend

\* number of load_llm calls of a run
MaxLoads == 6

\* the cached model is returned as it is
LoadCached ==
    /\ loads < MaxLoads
    /\ \E b \in Backends \cup {None} :
          /\ ~MustConstruct(b)
          /\ loaded' = [called |-> TRUE, backend |-> Resolved(b), raised |-> FALSE, r |-> llm]
    /\ loads' = loads + 1
    /\ UNCHANGED <<orch_vars, xin, xout, vin, vout, match_vars, norm_vars, earlier, post_vars,
                   job_vars, llm, backend>>

\* self.backend = backend, then the model is constructed and cached
LoadConstructed ==
    /\ loads < MaxLoads
    /\ \E b \in Backends \cup {None} :
          /\ MustConstruct(b)
          /\ backend' = Resolved(b)
          /\ llm' = Model(Resolved(b), loads + 1)
          /\ loaded' = [called |-> TRUE, backend |-> Resolved(b), raised |-> FALSE, r |-> llm']
    /\ loads' = loads + 1
    /\ UNCHANGED <<orch_vars, xin, xout, vin, vout, match_vars, norm_vars, earlier, post_vars,
                   job_vars>>

\* self.backend = backend, then the construction raises: self.llm keeps what it was
LoadRaised ==
    /\ loads < MaxLoads
    /\ \E b \in Backends \cup {None} :
          /\ MustConstruct(b)
          /\ backend' = Resolved(b)
          /\ loaded' = [called |-> TRUE, backend |-> Resolved(b), raised |-> TRUE, r |-> NoModel]
    /\ loads' = loads + 1
    /\ UNCHANGED <<orch_vars, xin, xout, vin, vout, match_vars, norm_vars, earlier, post_vars,
                   job_vars, llm>>

InitLoad ==
    /\ IdleRequest
    /\ xin = None /\ xout = NotCalled /\ vin = None /\ vout = NotCalled
    /\ IdleMatcher
    /\ IdleSide

SpecLoad == InitLoad /\ [][LoadCached \/ LoadConstructed \/ LoadRaised]_vars

(***************************************************************************)
(* process_content, called any number of times for one job id.  Each call  *)
(* is one run of the script; the files {job_id}_* of the public folder and *)
(* the rows of the Post table outlive it.                                  *)
(***************************************************************************)
InputTypes == {"youtube", "pdf", "text"}

\* a step of the processing: the file {job_id}_<writes> it leaves, whether it can go
\* on without writing it
ProcessingStep(name, writes, quiet) == [name |-> name, writes |-> writes, quiet |-> quiet]

\* load_llm and load_whisper, then the processor of the input type.  For a video:
\* the download, convert_to_wav and the transcription (skipped when YouTube had a
\* transcript), the normalization stage, the dump of the segments.  For a PDF: the
\* images of the pages, if there are any.
ProcessingSteps(t) ==
    <<ProcessingStep("load_models", None, FALSE)>> \o
    (CASE t = "youtube" -> <<ProcessingStep("download", "full.mp4", FALSE),
                             ProcessingStep("transcribe", "audio.wav", TRUE),
                             ProcessingStep("normalize_segments", None, FALSE),
                             ProcessingStep("save_segments", "segments.json", FALSE)>>
       [] t = "pdf"     -> <<ProcessingStep("pdf_process", "page1_img0.png", TRUE)>>
       [] t = "text"    -> <<ProcessingStep("text_process", None, FALSE)>>)

Left(files, writes) == IF writes = None THEN files ELSE files \cup {writes}

\* number of process_content calls for the job
MaxCalls == 3

\* existing_posts or existing_media: the call answers with what it finds
ProcessReuse ==
    /\ jpc \in {"idle", "returned", "failed"} /\ calls < MaxCalls
    /\ stored_posts > 0 \/ job_files # {}
    /\ job_response' = [status |-> "complete", posts |-> stored_posts, reused |-> TRUE]
    /\ jpc' = "returned"
    /\ calls' = calls + 1
    /\ UNCHANGED <<orch_vars, xin, xout, vin, vout, match_vars, norm_vars, earlier, post_vars,
                   load_vars, input_type, job_files, stored_posts, step, completed>>

\* nothing is found for the job: the processing starts
ProcessStart ==
    /\ jpc \in {"idle", "returned", "failed"} /\ calls < MaxCalls
    /\ stored_posts = 0 /\ job_files = {}
    /\ jpc' = "processing"
    /\ step' = 1
    /\ job_response' = NoResponse
    /\ calls' = calls + 1
    /\ UNCHANGED <<orch_vars, xin, xout, vin, vout, match_vars, norm_vars, earlier, post_vars,
                   load_vars, input_type, job_files, stored_posts, completed>>

\* the step is done and has left its file
StepDone ==
    /\ jpc = "processing" /\ step <= Len(ProcessingSteps(input_type))
    /\ job_files' = Left(job_files, ProcessingSteps(input_type)[step].writes)
    /\ step' = step + 1
    /\ UNCHANGED <<orch_vars, xin, xout, vin, vout, match_vars, norm_vars, earlier, post_vars,
                   load_vars, jpc, input_type, stored_posts, job_response, calls, completed>>

\* the step is done and there was nothing to write
StepQuiet ==
    /\ jpc = "processing" /\ step <= Len(ProcessingSteps(input_type))
    /\ ProcessingSteps(input_type)[step].quiet
    /\ step' = step + 1
    /\ UNCHANGED <<orch_vars, xin, xout, vin, vout, match_vars, norm_vars, earlier, post_vars,
                   load_vars, jpc, input_type, job_files, stored_posts, job_response, calls,
                   completed>>

\* the step raises, with its file begun or not; the script answers status failed
StepRaises ==
    /\ jpc = "processing" /\ step <= Len(ProcessingSteps(input_type))
    /\ \E begun \in BOOLEAN :
          job_files' = IF begun THEN Left(job_files, ProcessingSteps(input_type)[step].writes)
                       ELSE job_files
    /\ job_response' = [status |-> "failed", posts |-> 0, reused |-> FALSE]
    /\ jpc' = "failed"
    /\ UNCHANGED <<orch_vars, xin, xout, vin, vout, match_vars, norm_vars, earlier, post_vars,
                   load_vars, input_type, stored_posts, step, calls, completed>>

\* after the processor: a video without speech raises ValueError, otherwise
\* generate_posts_from_text raises or returns its posts, the transcript is written
\* to {job_id}_transcript.txt (not when it is blank or the write fails) and the call
\* answers complete
ProcessFinish ==
    /\ jpc = "processing" /\ step > Len(ProcessingSteps(input_type))
    /\ \E raises \in BOOLEAN, n \in 0..MaxPosts, saved \in BOOLEAN :
          IF raises
          THEN /\ job_response' = [status |-> "failed", posts |-> 0, reused |-> FALSE]
               /\ jpc' = "failed"
               /\ UNCHANGED <<job_files, completed>>
          ELSE /\ job_response' = [status |-> "complete", posts |-> n, reused |-> FALSE]
               /\ jpc' = "returned"
               /\ job_files' = IF saved THEN job_files \cup {"transcript.txt"} ELSE job_files
               /\ completed' = TRUE
    /\ UNCHANGED <<orch_vars, xin, xout, vin, vout, match_vars, norm_vars, earlier, post_vars,
                   load_vars, input_type, stored_posts, step, calls>>

\* the application that ran the script stores the posts of a complete answer
StorePosts ==
    /\ jpc = "returned" /\ ~job_response.reused
    /\ job_response.posts > 0 /\ stored_posts = 0
    /\ stored_posts' = job_response.posts
    /\ UNCHANGED <<orch_vars, xin, xout, vin, vout, match_vars, norm_vars, earlier, post_vars,
                   load_vars, jpc, input_type, job_files, step, job_response, calls, completed>>

InitJob ==
    /\ IdleRequest
    /\ xin = None /\ xout = NotCalled /\ vin = None /\ vout = NotCalled
    /\ IdleMatcher
    /\ IdleNormalizer /\ earlier = NotCalled /\ IdlePosts /\ IdleLoader
    /\ input_type \in InputTypes
    /\ FreshJob

NextJob ==
    \/ ProcessReuse
    \/ ProcessStart
    \/ StepDone
    \/ StepQuiet
    \/ StepRaises
    \/ ProcessFinish
    \/ StorePosts

SpecJob == InitJob /\ [][NextJob]_vars

(***************************************************************************)
(* Properties of the orchestrator and of process_clip_request (Spec).      *)
(***************************************************************************)
AllStrategiesFailed ==
    /\ Len(log) = NStrategies
    /\ \A k \in 1..Len(log) : log[k].outcome # "passed"

\* C1: the strategies are attempted in catalog order, nothing is attempted after
\* the first attempt whose extraction succeeds and whose verification passes, and
\* the success result reports that strategy's name, the verifier's bucket,
\* adjusted_start = max(0, start + start_offset) and adjusted_end = end + end_offset;
\* a pass of the third strategy reports "Medium buffer" with bucket "medium".
C1_FirstPassingStrategyWins ==
    LET names == <<"Exact timing", "Small buffer", "Medium buffer", "Large buffer",
                   "Extended search">>
        offs  == <<0, 20, 50, 100, 300>>
        n     == Len(log)
    IN  /\ \A k \in 1..n : log[k].index = k - 1 /\ log[k].strategy = names[k]
        /\ \A k \in 1..n : (k < n) => log[k].outcome \in {"extract_failed", "verify_failed"}
        /\ (n >= 1 /\ log[n].outcome = "passed") <=> (result.returned /\ result.success)
        /\ (result.returned /\ result.success) =>
              /\ i = n - 1
              /\ result.strategy = names[n]
              /\ result.adjusted_start = (IF start - offs[n] > 0 THEN start - offs[n] ELSE 0)
              /\ result.adjusted_end = end + offs[n]
              /\ log[n].verification.likely_contains_quote
              /\ result.confidence = log[n].verification.confidence
              /\ (n = 3 => result.confidence = "medium")

\* C1 witness: the first attempt fails in extraction, the second in verification,
\* the third passes, with a target start of 0 so that the adjusted start is floored.
C1_Witness ==
    /\ result.returned /\ result.success
    /\ Len(log) = 3
    /\ log[1].outcome = "extract_failed" /\ log[2].outcome = "verify_failed"
    /\ start = 0 /\ result.adjusted_start = 0
    /\ result.strategy = "Medium buffer"

\* C2: when extract_clip_with_verification has returned, for any output path and
\* any extractor/verifier outcomes, the output path holds the verified clip
\* (success), the copied debug clip (fallback) or nothing of this request; a file
\* written by an attempt that failed is never what sits at the output path.
C2_OutputHoldsNoFailedScratch ==
    result.returned =>
        /\ \A k \in 1..Len(log) :
               log[k].outcome # "passed" =>
                   ~(fs[OutputPath].kind \in {"partial", "clip"} /\ fs[OutputPath].by = log[k].index)
        /\ LET f == fs[OutputPath]
           IN  IF result.success THEN f = [kind |-> "clip", by |-> Len(log) - 1]
               ELSE IF result.debug_clip # None THEN f = [kind |-> "clip", by |-> DebugBy]
               ELSE f.kind \in {"none", "stale"}

\* C3: no file written by an attempt that did not succeed is left at that attempt's
\* scratch path (stated for output paths that hold ".mp4", whose scratch paths are
\* all different from the output path).
C3_FailedScratchRemoved ==
    out_has_mp4 =>
        \A k \in 1..Len(log) :
            log[k].outcome # "passed" => fs[TempClipPath(log[k].index)].kind = "none"

\* C4 as claimed: whenever every strategy failed and the orchestrator returned, a
\* debug artifact spanning start - 30 s to end + 30 s was produced and the result
\* has success = false with a non-null debug path.
C4_DebugArtifactAlwaysProduced ==
    (result.returned /\ AllStrategiesFailed) =>
        /\ ~result.success
        /\ result.debug_clip # None
        /\ debug_call.made
        /\ debug_call.start = start - 300
        /\ debug_call.end = end + 300

\* C4 amended: after every strategy failed the orchestrator requests one debug
\* extraction spanning max(0, start - 30 s) to end + 30 s with padding 0; when it
\* returns, success = false and the debug path is non-null exactly when that
\* extraction succeeded (the debug clip then is also what the output path holds).
\* It does not return when the debug path is the output path and the extraction
\* succeeded: the copy raises.
C4_DebugFallback ==
    /\ (result.returned /\ AllStrategiesFailed) =>
          /\ ~result.success
          /\ debug_call.made
          /\ debug_call.start = (IF start > 300 THEN start - 300 ELSE 0)
          /\ debug_call.end = end + 300
          /\ debug_call.ran => debug_call.ss = debug_call.start
          /\ (result.debug_clip # None) <=> debug_call.success
          /\ debug_call.success =>
                /\ result.debug_clip = DebugPath
                /\ fs[result.debug_clip] = [kind |-> "clip", by |-> DebugBy]
                /\ fs[OutputPath] = [kind |-> "clip", by |-> DebugBy]
    /\ pc = "raised" => (~out_has_mp4 /\ AllStrategiesFailed /\ debug_call.success)
    /\ debug_call.made => AllStrategiesFailed

\* C4 witness: all five strategies failed, the debug extraction succeeded, and the
\* target start is below 30 s, so the debug start is floored at 0.
C4_Witness ==
    /\ result.returned /\ AllStrategiesFailed
    /\ result.debug_clip # None
    /\ start = MidStart /\ debug_call.start = 0

\* C5: when all strategies fail and the debug extraction fails too, the result is
\* total failure (success = false, no debug path) and no artifact exists at the
\* output path (stated for output paths that hold ".mp4"), whatever was there
\* before the request.
C5_TotalFailureLeavesNoArtifact ==
    (out_has_mp4 /\ result.returned /\ AllStrategiesFailed /\ ~debug_call.success) =>
        /\ ~result.success
        /\ result.debug_clip = None
        /\ fs[OutputPath].kind = "none"

C6_EndNeverBeyondEpsilon ==
    (xout.called /\ xin.probe.kind = "ok") =>
        /\ xout.r.ran => xout.r.to <= xin.probe.duration - 1
        /\ xout.r.ran => xout.r.t > 0
        /\ xout.r.t <= 0 => (~xout.r.ran /\ ~xout.r.success)

\* C6 amended: with a probed source duration D, ffmpeg is never run with a padded
\* end above D: a padded end above D is clamped to D - 0.1, one of at most D (also
\* one between D - 0.1 and D) is passed unchanged; when the probe raises the end is
\* not clamped, and when it prints nothing D counts as 0.  ffmpeg is run exactly
\* when the computed duration (padded end - padded start) is > 0, seeking to
\* max(0, start - padding); otherwise the call fails without running it.
C6_EndNeverBeyondDuration ==
    xout.called =>
        LET r    == xout.r
            raw  == xin.end + xin.padding
            d    == IF xin.probe.kind = "ok" THEN xin.probe.duration ELSE 0
            ss   == IF xin.start > xin.padding THEN xin.start - xin.padding ELSE 0
        IN  /\ r.ss = ss
            /\ xin.probe.kind = "raise" => r.to = raw
            /\ xin.probe.kind # "raise" =>
                  /\ r.to <= d
                  /\ r.to = (IF raw > d THEN d - 1 ELSE raw)
            /\ r.t = r.to - r.ss
            /\ r.ran <=> r.t > 0
            /\ ~r.ran => (~r.success /\ ~r.wrote)
            /\ r.success <=> (r.ran /\ xin.ff = "ok")

\* C6 witness: the padded end exceeds the probed duration, is clamped to D - 0.1,
\* and ffmpeg runs with it.
C6_Witness ==
    /\ xout.called /\ xin.probe.kind = "ok"
    /\ xin.end + xin.padding > xin.probe.duration
    /\ xout.r.ran /\ xout.r.to = xin.probe.duration - 1

(***************************************************************************)
(* Properties of _verify_clip_contains_quote (SpecVerify).                 *)
(***************************************************************************)
\* C7 as claimed: for every combination of check results, final confidence =
\* prior weight x (number of the three checks that passed) / 3, the outcome passes
\* exactly when it is >= 0.5, and the bucket is high when >= 0.8, medium when
\* >= 0.6, low otherwise.
C7_ConfidenceOverThreeChecks ==
    vout.called =>
        LET prior  == CASE vin.strategy_name = "Exact timing"    -> 9
                        [] vin.strategy_name = "Small buffer"    -> 8
                        [] vin.strategy_name = "Medium buffer"   -> 6
                        [] vin.strategy_name = "Large buffer"    -> 4
                        [] vin.strategy_name = "Extended search" -> 2
                        [] OTHER                                 -> 1
            passed == B2N(vin.dur = "ok") + B2N(vin.audio = "pass") + B2N(vin.size = "pass")
            \* final confidence = prior * passed / 30
            c      == prior * passed
        IN  /\ vout.r.likely_contains_quote <=> (c >= 15)
            /\ vout.r.confidence = (IF c >= 24 THEN "high" ELSE IF c >= 18 THEN "medium" ELSE "low")

\* C7 amended: when the clip's duration probe raises or reports no positive
\* duration the outcome fails with bucket low whatever the other checks say.
\* Otherwise final confidence = prior weight x (checks passed) / (checks run),
\* where the duration check always runs and an audio or size check that raised is
\* left out of both counts; the outcome passes exactly when it is >= 0.5, and the
\* bucket is high when >= 0.8, medium when >= 0.6, low otherwise.
C7_ConfidenceOverChecksRun ==
    vout.called =>
        LET prior  == CASE vin.strategy_name = "Exact timing"    -> 9
                        [] vin.strategy_name = "Small buffer"    -> 8
                        [] vin.strategy_name = "Medium buffer"   -> 6
                        [] vin.strategy_name = "Large buffer"    -> 4
                        [] vin.strategy_name = "Extended search" -> 2
                        [] OTHER                                 -> 1
            passed == B2N(vin.dur = "ok") + B2N(vin.audio = "pass") + B2N(vin.size = "pass")
            run    == 1 + B2N(vin.audio # "skip") + B2N(vin.size # "skip")
            \* final confidence = prior * passed / (10 * run)
            c      == prior * passed
        IN  IF vin.dur \in {"raise", "zero"}
            THEN ~vout.r.likely_contains_quote /\ vout.r.confidence = "low"
            ELSE /\ vout.r.num * 10 * run = c * vout.r.den
                 /\ vout.r.likely_contains_quote <=> (c >= 5 * run)
                 /\ vout.r.confidence =
                       (IF c >= 8 * run THEN "high" ELSE IF c >= 6 * run THEN "medium" ELSE "low")

\* C7 witness: "Exact timing" with two of three checks passed: 0.9 x 2/3 = 0.6,
\* which passes with bucket medium.
C7_Witness ==
    /\ vout.called
    /\ vin.strategy_name = "Exact timing"
    /\ vin.dur = "ok" /\ vin.audio = "fail" /\ vin.size = "pass"
    /\ vout.r.likely_contains_quote /\ vout.r.confidence = "medium"

(***************************************************************************)
(* Properties of find_best_match (SpecMatch).                              *)
(***************************************************************************)
\* C8: for the segments (0-1 "The quick brown fox"), (1-2 "jumps over the lazy
\* dog"), (2-3 "and runs away") and the quote "quick brown fox jumps over the lazy
\* dog", and for the paraphrase fixture, the matcher returns the start of the
\* spanning window's first segment and the end of its last segment, start = 0.0
\* and end = 2.0, with a snippet that contains the window text.
C8_WindowBoundsReturned ==
    (/\ mpc = "done"
     /\ [segments |-> segments, quote |-> quote] \in {ExactMatchCase, ParaphraseCase})
    => /\ found.r.start_time = Time(0)
       /\ found.r.end_time = Time(20)
       /\ found.r.matched_text.has
       /\ Contains(normalize_text(found.r.matched_text.v),
                   normalize_text(Join(SubSeq(segments, 1, 2))))

\* C9: a scored call accepts its best candidate only when the best score reaches
\* 0.5 for a quote of at most 5 normalized words, 0.4 for at most 10 and 0.35 for
\* a longer one, a threshold that never increases with the word count; a best
\* score below the threshold gives the no-match value; and every result, the
\* short-quote path's included, has start, end and snippet all present or all
\* absent.
C9_TieredThreshold ==
    (mpc = "done") =>
        LET n == Len(quote_words)
            tier == IF n <= 5 THEN Frac(50, 100)
                    ELSE IF n <= 10 THEN Frac(40, 100)
                    ELSE Frac(35, 100)
        IN  /\ found.r.start_time.has = found.r.end_time.has
            /\ found.r.end_time.has = found.r.matched_text.has
            /\ (n >= 2 /\ segments # << >>) =>
                  /\ found.r.start_time.has => FGeq(best_score, tier)
                  /\ FLess(best_score, tier) => found.r = NoMatch
                  /\ \A m \in 1..n : FGeq(min_threshold(m), min_threshold(m + 1))

\* a quote of six to ten words whose best window scores at least 0.35 and less
\* than 0.4 is answered with the no-match value
C9_Witness ==
    /\ mpc = "done"
    /\ Len(quote_words) > 5 /\ Len(quote_words) <= 10
    /\ best_match.has
    /\ FGeq(best_score, Frac(35, 100))
    /\ FLess(best_score, Frac(40, 100))
    /\ found.r = NoMatch

(***************************************************************************)
(* Termination of the orchestrator (SpecLive).                             *)
(***************************************************************************)
\* C11: every external call is bounded by a timeout, so that once the orchestrator
\* has started on its strategies it eventually returns, whatever the external
\* processes do.
C11_OrchestratorReturns == (pc = "strategy") ~> (result.returned \/ pc = "raised")


(***************************************************************************)
(* Properties of the segment normalization stage (SpecNormalize).          *)
(***************************************************************************)
\* C12: the normalization stage never raises, whatever the raw segment list holds:
\* entries that are not records, records with missing or non-numeric timestamps,
\* records with empty or missing text.
C12_NormalizationNeverRaises == ~normalized.raised

\* C13: the stage is idempotent: applied to its own output it returns that output.
C13_NormalizationIdempotent ==
    npc = "again" => (~renormalized.raised /\ renormalized.segments = normalized.segments)

\* C14: what merge_short_segments returns for a list the stage accepted is ordered by
\* start time and its chunks do not overlap in time.
C14_MergedOrderedDisjoint ==
    npc = "merged" =>
        \A k \in 1..(Len(merged) - 1) :
            /\ merged[k].start.v <= merged[k + 1].start.v
            /\ merged[k].end.v <= merged[k + 1].start.v

(***************************************************************************)
(* Two calls of find_best_match on the same arguments (SpecRematch).       *)
(***************************************************************************)
\* C15: two calls of find_best_match with the same segments, quote and context padding
\* return the same result, whatever happened before and whatever holds outside the
\* arguments.
C15_SameArgumentsSameResult ==
    (mpc = "done" /\ earlier.called) => found.r = earlier.r

(***************************************************************************)
(* Properties of deduplicate_posts (SpecDedup).                            *)
(***************************************************************************)
\* the positions of the posts that stay: those without a source_quote (none or an
\* empty one) and those whose source_quote no earlier post has
StayingPositions ==
    SelectSeq(Positions(all_posts),
              LAMBDA k : \/ ~all_posts[k].source_quote.has
                         \/ all_posts[k].source_quote.v = ""
                         \/ \A j \in 1..(k - 1) : all_posts[j].source_quote # all_posts[k].source_quote)

\* C16: deduplicate_posts returns the posts in their order without those whose
\* source_quote an earlier post has, so that every non-empty source_quote of the input
\* is there exactly once; posts without a source_quote all stay; and deduplicating the
\* result changes nothing.
C16_DeduplicateKeepsFirst ==
    /\ ppc \in {"deduplicated", "again"} =>
          /\ unique = [x \in 1..Len(StayingPositions) |-> all_posts[StayingPositions[x]]]
          /\ \A k \in 1..Len(all_posts) :
                (all_posts[k].source_quote.has /\ all_posts[k].source_quote.v # "") =>
                    Cardinality({x \in 1..Len(unique) :
                                     unique[x].source_quote = all_posts[k].source_quote}) = 1
    /\ ppc = "again" => unique_again = unique

C16_Witness ==
    /\ ppc = "again"
    /\ Len(unique) < Len(all_posts)
    /\ \E x \in 1..Len(unique) : ~unique[x].source_quote.has

(***************************************************************************)
(* Properties of generate_posts_from_text (SpecGenerate).                  *)
(***************************************************************************)
\* C17: when the LLM output is an array without its closing bracket,
\* generate_posts_from_text returns every complete post object of it in order
\* (duplicates of a source_quote aside) and drops only an incomplete trailing object.
C17_TruncatedArrayKeepsCompleteObjects ==
    (ppc \in {"generated", "raised"} /\ ~response_content.closed
       /\ response_content.objects # << >>
       /\ (\A k \in 1..Len(response_content.objects) : IsValidPost(response_content.objects[k]))) =>
        /\ ~final_posts.r.raised
        /\ final_posts.r.posts = deduplicate_posts(response_content.objects)

(***************************************************************************)
(* The order of the steps of one clip request (Spec).                      *)
(***************************************************************************)
NonePassed(history) == \A k \in 1..Len(history) : history[k].outcome # "passed"

\* C18: a clip request goes Idle -> Matching -> {NotFound | Matched} -> Strategy(1..5)
\* -> DebugExtraction -> Done.  The strategy loop is entered from matching only with a
\* window that matching returned; an attempt is made only in the loop, with the
\* strategy that follows the ones tried, all of which failed; the debug extraction is
\* made once at most, only when all strategies were tried and failed, and is what
\* follows the failure of the last one; files change in no other step but the copy of
\* the debug clip after the orchestrator returned.
C18_StepOrder ==
    [][ /\ (pc' = "strategy" /\ pc # "strategy") =>
              /\ pc = "matching"
              /\ \E m \in MatchOutcomes : m.kind = "match" /\ start' = m.start /\ end' = m.end
        /\ (pc = "matching" /\ pc' # "strategy") => (pc' = "done" /\ response'.status = "error")
        /\ log' # log =>
              /\ pc = "strategy"
              /\ NonePassed(log)
              /\ Len(log') = Len(log) + 1
              /\ SubSeq(log', 1, Len(log)) = log
              /\ log'[Len(log')].index = Len(log)
              /\ log'[Len(log')].strategy = strategies[Len(log) + 1].name
        /\ (pc = "strategy" /\ pc' \notin {"strategy", "blocked"}) =>
              IF log'[Len(log')].outcome = "passed" THEN pc' = "returned"
              ELSE pc' = "debug" /\ Len(log') = NStrategies
        /\ (pc = "strategy" /\ pc' = "strategy") =>
              (log' # log /\ NonePassed(log') /\ Len(log') < NStrategies)
        /\ debug_call' # debug_call =>
              /\ pc = "debug"
              /\ ~debug_call.made /\ debug_call'.made
              /\ Len(log) = NStrategies /\ NonePassed(log)
              /\ pc' \in {"returned", "raised"}
        /\ pc' = "debug" => (pc = "strategy" /\ ~debug_call.made)
        /\ fs' # fs => pc \in {"strategy", "debug", "returned"}
        /\ pc \in {"done", "raised", "blocked"} => pc' = pc
      ]_vars

C18_Witness ==
    /\ caller = "request"
    /\ pc = "done"
    /\ Len(log) = NStrategies
    /\ debug_call.made

(***************************************************************************)
(* The context padding of an accepted match (SpecMatch).                   *)
(***************************************************************************)
\* the segment the short-quote path matched: the first whose text holds the quote
FirstHolding ==
    CHOOSE k \in 1..Len(segments) :
        /\ Contains(normalize_text(segments[k].text), normalize_text(quote))
        /\ \A j \in 1..(k - 1) : ~Contains(normalize_text(segments[j].text), normalize_text(quote))

\* the matched window before padding, of the scored path or of the short-quote path
MatchedWindow ==
    IF best_match.has THEN [start |-> best_match.start_time, end |-> best_match.end_time]
    ELSE [start |-> segments[FirstHolding].start, end |-> segments[FirstHolding].end]

\* C19: on every accepted match, scored or short-quote, the returned end is the matched
\* end plus the context padding and the returned start is the matched start minus the
\* context padding, or the matched start itself when that does not exceed the padding;
\* the returned start is not negative and not after the matched start.
C19_PaddingOnEveryPath ==
    (mpc = "done" /\ found.r.start_time.has
       /\ MatchedWindow.start.has /\ MatchedWindow.end.has) =>
        /\ found.r.end_time.v = MatchedWindow.end.v + context_padding
        /\ found.r.start_time.v = (IF MatchedWindow.start.v > context_padding
                                   THEN MatchedWindow.start.v - context_padding
                                   ELSE MatchedWindow.start.v)
        /\ found.r.start_time.v >= 0
        /\ found.r.start_time.v <= MatchedWindow.start.v

(***************************************************************************)
(* The candidate find_best_match retains (SpecMatch).                      *)
(***************************************************************************)
\* the candidate windows <<window_size, start_idx>> of the two loops
Candidates ==
    {c \in ToSet(window_sizes(segments)) \X (0..Len(segments)) : c[2] + c[1] <= Len(segments)}

\* iteration order: smaller window size first, then smaller start index
Before(c, d) == c[1] < d[1] \/ (c[1] = d[1] /\ c[2] < d[2])

CandidateSegments(c) == SubSeq(segments, c[2] + 1, c[2] + c[1])

\* the adjusted score of a candidate; a blank window is skipped and scores nothing
CandidateScore(c) ==
    LET text == Join(CandidateSegments(c))
    IN  IF IsBlank(text) THEN Zero
        ELSE FMul(final_score(calculate_all_scores(use_rapidfuzz, quote, text)),
                  length_bonus(Len(Split(normalize_text(text))), Len(quote_words)))

CandidateMatch(c) ==
    [has |-> TRUE,
     start_time |-> CandidateSegments(c)[1].start,
     end_time |-> CandidateSegments(c)[c[1]].end,
     text |-> Strip(Join(CandidateSegments(c)))]

SameScore(a, b) == ~FLess(a, b) /\ ~FLess(b, a)

\* both loops ran to their end
Scanned == mpc = "decide"

\* every candidate with its score
ScoreTable == {<<c, CandidateScore(c)>> : c \in Candidates}

\* C20: once both loops are through, the retained candidate is the first in iteration
\* order (window sizes 1, 2, 3, 5, 8 up to the number of segments, start indices
\* ascending) among those of the highest score: no candidate scores higher, every
\* earlier one scores lower, and none is retained when no candidate scores above 0.
C20_FirstOfTheBestRetained ==
    Scanned =>
        \E table \in {ScoreTable} :
            /\ candidates_tested = Cardinality(Candidates)
            /\ \A p \in table : ~FLess(best_score, p[2])
            /\ IF best_match.has
               THEN \E p \in table :
                       /\ SameScore(p[2], best_score)
                       /\ best_match = CandidateMatch(p[1])
                       /\ \A q \in table : Before(q[1], p[1]) => FLess(q[2], p[2])
               ELSE best_score = Zero

\* two candidates tie at the highest score and the earlier one is retained
C20_Witness ==
    /\ mpc = "done"
    /\ candidates_tested > 0
    /\ best_match.has
    /\ \E c, d \in Candidates :
          /\ Before(c, d)
          /\ best_match = CandidateMatch(c)
          /\ best_match # CandidateMatch(d)
          /\ SameScore(CandidateScore(c), best_score)
          /\ SameScore(CandidateScore(d), best_score)

(***************************************************************************)
(* The short-quote path of find_best_match (SpecMatch).                    *)
(***************************************************************************)
\* segment k holds the quote: its normalized text contains the normalized quote
Holds(k) == Contains(normalize_text(segments[k].text), normalize_text(quote))

\* C21: a quote of fewer than 2 words after normalization is not scored against any
\* window: the result is the first segment, in order, whose normalized text contains
\* the normalized quote, and no match when no segment contains it.
C21_ShortQuoteExactSearch ==
    (mpc = "done" /\ quote # << >> /\ segments # << >> /\ Len(quote_words) < 2) =>
        /\ candidates_tested = 0
        /\ ~best_match.has
        /\ IF \E k \in 1..Len(segments) : Holds(k)
           THEN /\ found.r.matched_text = Text(segments[FirstHolding].text)
                /\ segments[FirstHolding].start.has =>
                      found.r.start_time = Time(Max(0, segments[FirstHolding].start.v - context_padding))
                /\ segments[FirstHolding].end.has =>
                      found.r.end_time = Time(segments[FirstHolding].end.v + context_padding)
           ELSE found.r = NoMatch

\* two segments hold a one-word quote and the first of them is returned
C21_Witness ==
    /\ mpc = "done"
    /\ Len(quote_words) = 1
    /\ \E j, k \in 1..Len(segments) : j < k /\ Holds(j) /\ Holds(k)
    /\ found.r.start_time.has
    /\ found.r.matched_text = Text(segments[FirstHolding].text)

(***************************************************************************)
(* The merge policy and the timestamp repair of the stage (SpecNormalize). *)
(***************************************************************************)
\* the segments the cleanup loop kept
Accepted == Cleanup(raw_segments, 1, << >>)

\* the average duration of the accepted segments is under six seconds
AcceptedAverageShort ==
    Accepted # << >> /\ SumDurations(Accepted) < ShortAverage * Len(Accepted)

\* C22: the merge policy is applied exactly when the average duration of the accepted
\* segments is under 6 seconds: then the stage returns the merged segments if merging
\* improved on them, and in every other case it returns the accepted segments unmerged.
C22_MergeByAcceptedAverage ==
    npc = "returned" =>
        normalized.segments =
            (IF AcceptedAverageShort /\ Improves(merge_short_segments(Accepted), Accepted)
             THEN merge_short_segments(Accepted)
             ELSE Accepted)

\* the positions of the raw entries the cleanup keeps: records whose text is not blank
KeptPositions ==
    SelectSeq(Positions(raw_segments),
              LAMBDA k : raw_segments[k].dict /\ ~IsBlank(GetText(raw_segments[k].text)))

\* the raw entry had start = end = 0, given or by default
ZeroPair(entry) == GetTime(entry.start).v = 0 /\ GetTime(entry.end).v = 0

\* C23: after the repair, the accepted segments are the raw records with non-blank
\* text, in order, with trimmed text and numeric timestamps; each one after the first
\* whose raw timestamps were 0/0 starts at the end of the accepted segment before it
\* and lasts max(2.0, 0.1 x text length) seconds, so none of them keeps a 0/0 pair, and
\* each one that was not 0/0 keeps its timestamps.
C23_ZeroTimestampsRepaired ==
    npc = "returned" =>
        /\ normalized.segments \in {Accepted, merge_short_segments(Accepted)}
        /\ Len(Accepted) = Len(KeptPositions)
        /\ \A x \in 1..Len(Accepted) :
              LET entry == raw_segments[KeptPositions[x]]
              IN  /\ Accepted[x].text = Text(Strip(GetText(entry.text)))
                  /\ Accepted[x].text.v # << >>
                  /\ IsNumber(Accepted[x].start) /\ IsNumber(Accepted[x].end)
                  /\ ~ZeroPair(entry) =>
                        /\ Accepted[x].start = GetTime(entry.start)
                        /\ Accepted[x].end = GetTime(entry.end)
                  /\ (x > 1 /\ ZeroPair(entry)) =>
                        /\ Accepted[x].start.v = Accepted[x - 1].end.v
                        /\ Accepted[x].end.v =
                              Accepted[x].start.v + Max(20, Len(GetText(entry.text)))
                        /\ ~(Accepted[x].start.v = 0 /\ Accepted[x].end.v = 0)

\* a 0/0 entry with more than 20 characters follows an accepted segment and is repaired
C23_Witness ==
    /\ npc = "returned"
    /\ \E x \in 2..Len(Accepted) :
          /\ ZeroPair(raw_segments[KeptPositions[x]])
          /\ Accepted[x - 1].end.v > 0
          /\ Accepted[x].end.v - Accepted[x].start.v > 20
          /\ normalized.segments = Accepted

(* The verifier's decision by strategy and by check results (SpecVerify). *)
CatalogNames == {strategies[k].name : k \in 1..NStrategies}

\* the three checks were run and every one of them passed
AllChecksPassed == vin.dur = "ok" /\ vin.audio = "pass" /\ vin.size = "pass"

\* C24: every strategy of the catalog can end a request successfully: called with the
\* name of any of the five strategies on a clip that passes every check, the verifier
\* reports that the clip passes.
C24_EveryStrategyCanPass ==
    (vout.called /\ vin.strategy_name \in CatalogNames /\ AllChecksPassed) =>
        vout.r.likely_contains_quote

\* C27: whenever the verifier reports that a clip passes, every check that was run on
\* the clip passed.
C27_PassMeansEveryCheckPassed ==
    (vout.called /\ vout.r.likely_contains_quote) =>
        vout.r.passed_checks = vout.r.total_checks

(* What find_best_match does with texts that normalize to nothing (SpecMatch). *)

\* C25: find_best_match never raises: for every non-empty quote and every non-empty
\* segment list whose texts are strings, punctuation-only texts included, the call
\* returns.
C25_MatcherNeverRaises ==
    (quote # << >> /\ segments # << >>) => mpc # "raised"

\* C26: a quote that normalizes to the empty string is never matched: the call returns
\* no match whatever the segments are.
C26_EmptyNormalizedQuoteNeverMatched ==
    (mpc = "done" /\ normalize_text(quote) = << >>) => found.r = NoMatch

(* The range a completed clip request reports (Spec). *)

\* the range handed to _extract_single_clip in the call that wrote the clip at the
\* output path
HandedRange ==
    LET by == fs[OutputPath].by
    IN  IF by = DebugBy THEN <<debug_call.start, debug_call.end>>
        ELSE <<AdjustedStart(by), AdjustedEnd(by)>>

\* C29: in every response with status complete, start_time and end_time are the range
\* that was handed to the extractor for the clip at media_path, and start_time is not
\* negative, for a verified clip and for the debug fallback alike.
C29_ReportedRangeIsExtractedRange ==
    response.status = "complete" =>
        /\ fs[OutputPath].kind = "clip"
        /\ <<response.start_time, response.end_time>> = HandedRange
        /\ response.start_time >= 0

(* The model cache of LLMManager (SpecLoad). *)

\* C28: after any sequence of load_llm calls, calls whose construction raised
\* included, a load_llm(b) that returns hands back a model constructed for backend b,
\* and the cached model and the recorded backend agree.
C28_CachedModelMatchesBackend ==
    /\ (loaded.called /\ ~loaded.raised) =>
          (loaded.r.has /\ loaded.r.built_for = loaded.backend)
    /\ llm.has => llm.built_for = backend

(* The reuse of earlier output by process_content (SpecJob). *)

\* C30: process_content reuses earlier output only when the processing of the job
\* completed: a call that answers from what it finds for the job follows a call that
\* ran the processing to its end; after a call that failed with some {job_id}_* file
\* written, the next call runs the processing again.
C30_ReuseOnlyAfterCompletion ==
    (jpc = "returned" /\ job_response.reused) => completed

====
